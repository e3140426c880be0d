---------------------------- MODULE JournalProofs ----------------------------
(***************************************************************************)
(* Proofs about Journal, for every size of the ring, of the buffers, of    *)
(* the history and of the queue, and whatever is typed: the ring of        *)
(* records stays in order over its wrap, the wrap of the record numbers,   *)
(* torn blocks and restarts, and the SD task neither panics nor waits for  *)
(* a transfer that is not there.                                           *)
(*                                                                         *)
(* The handlers of the terminal are operators on the records that World    *)
(* gathers; for each of them a lemma says that it keeps WorldOK and Order. *)
(***************************************************************************)
EXTENDS Journal, NumberProofs

-----------------------------------------------------------------------------
(* The inductive invariant *)

\* The bytes, with the data of the records of owners: the provers do not see that
\* a literal is a string
Char == STRING \union {"ACQUIRE", "RELEASE"}
Line == Seq(Char)
Shell ==
  [line : Line, hist : Seq(Line), nav : Nat, scratch : Line, esc : 0 .. 2,
   eol : {"NONE", "AFTER_CR", "AFTER_CRCR"}]
Term == [sh : Shell, owned : BOOLEAN, reg : BOOLEAN, quit : BOOLEAN]
TermView ==
  [line : Line, hist : Seq(Line), nav : Nat, scratch : Line, esc : 0 .. 2, owned : BOOLEAN]
Number == 0 .. SeqWrap - 1
Place == 0 .. Blocks - 1
Record == [kind : {"NONE", "RX", "OWNER"}, seq : Number, base : 0 .. MaxSnaps, data : Line]
Jrnl ==
  [on : BOOLEAN, pending : Line, next : Place, seq : Number, base : 0 .. MaxSnaps, suppress : Nat]
Ghost ==
  [complete : SUBSET (1 .. MaxSnaps), durable : TermView, skew : BOOLEAN, cut : BOOLEAN]
Worlds ==
  [term : Term, cmds : Seq(Line), jrnl : Jrnl, ring : [Place -> Record], ghost : Ghost]

ShellOK(sh) == sh \in Shell /\ sh.nav <= Len(sh.hist)
TermOK(t) == t \in Term /\ ShellOK(t.sh)
RingOK(rg) == rg \in [Place -> Record] /\ \A i \in Place : Len(rg[i].data) <= PendingCap
JrnlOK(j) == j \in Jrnl /\ Len(j.pending) <= PendingCap

\* What a handler of the terminal keeps; it does not touch the history
\* variable of the SD task
WorldOK(w, cut) ==
  /\ w \in Worlds /\ TermOK(w.term) /\ JrnlOK(w.jrnl) /\ RingOK(w.ring)
  /\ Len(w.cmds) <= Mailbox /\ w.ghost.cut = cut

\* A ring that is not out of order has a place for the next record, and a
\* journal that is on is at that place
Heads == [next : Place, seq : Number]
Order(rg, j, skew) ==
  ~skew => \E h \in Heads : InOrder(rg, h) /\ (j.on => h.next = j.next /\ h.seq = j.seq)
WorldOrder(w) == Order(w.ring, w.jrnl, w.ghost.skew)

\* What the queue of the SD task can hold: a request, since commands wait until
\* it is empty, and the end of a transfer that the task waits for
SdOps == {"NONE", "READ", "TEST"}
IsRequest(e) == e.sig \in {"READ", "TEST"} /\ e.blocks \in 1 .. MaxBlocks
IsEnd(e) == e.sig \in {"DONE", "ERROR"}
Waits(s) == s.op # "NONE" /\ s.status # "IN_PROGRESS"
SdQueueOK(s) ==
  \/ s.q = <<>>
  \/ Len(s.q) = 1 /\ IsRequest(s.q[1])
  \/ Len(s.q) = 1 /\ IsEnd(s.q[1]) /\ Waits(s)
  \/ Len(s.q) = 2 /\ IsRequest(s.q[1]) /\ IsEnd(s.q[2]) /\ Waits(s)
SdOK(s, cut) ==
  /\ s \in SdState /\ SdQueueOK(s)
  /\ s.status = "IN_PROGRESS" => s.op # "NONE"
  /\ \/ s.op = "NONE" \/ cut \/ s.status = "IN_PROGRESS"
     \/ \E i \in 1 .. Len(s.q) : IsEnd(s.q[i])

\* An image of a snapshot
Images == [term : Term, op : SdOps]
ImageOK(m) == m = NoImage \/ (m \in Images /\ TermOK(m.term))

SnapsOK ==
  /\ DOMAIN snaps = 1 .. MaxSnaps /\ \A s \in 1 .. MaxSnaps : ImageOK(snaps[s])
  /\ trigger \in BOOLEAN /\ (trigger => NextSnap <= MaxSnaps)
  /\ last \in 0 .. MaxSnaps /\ from \in 0 .. MaxSnaps
InputOK == input \in Seq(Line) /\ count \in [boots : Nat, faults : Nat]

\* What is kept of the terminal and the journal: types, bounds, the ring's order
Good(w, cut) == WorldOK(w, cut) /\ WorldOrder(w)

IInv ==
  /\ Good(World, ghost.cut) /\ SdOK(sd, ghost.cut) /\ SnapsOK /\ InputOK
  /\ mode \in {"RUN", "OFF"}

-----------------------------------------------------------------------------
(* Numbers modulo the size of the ring and modulo SeqWrap *)

\* The sizes are numbers
LEMMA Sizes ==
  /\ Blocks \in Nat \ {0} /\ SeqWrap \in Nat \ {0} /\ SeqWrap >= 2 * Blocks
  /\ PendingCap \in Nat \ {0} /\ Mailbox \in Nat \ {0} /\ MaxSnaps \in Nat
  /\ SeqWrap \div 2 \in Nat /\ SeqWrap \div 2 >= Blocks
<1>1. /\ Blocks \in Nat \ {0} /\ SeqWrap \in Nat /\ SeqWrap > 2 * Blocks - 1
      /\ PendingCap \in Nat \ {0} /\ Mailbox \in Nat \ {0} /\ MaxSnaps \in Nat
  BY JournalAssumption
<1> QED BY <1>1

\* The place after next, and its number
NextPlace(j) == (j.next + 1) % Blocks
NextNumber(j) == (j.seq + 1) % SeqWrap

\* The number before the next one is this one, and the others move by one
LEMMA NumberBefore ==
  ASSUME NEW q \in Number, NEW i \in 1 .. Blocks
  PROVE  /\ (q + 1) % SeqWrap \in Number /\ (q - i) % SeqWrap \in Number
         /\ (((q + 1) % SeqWrap) - 1) % SeqWrap = q
         /\ (((q + 1) % SeqWrap) - (i + 1)) % SeqWrap = (q - i) % SeqWrap
         /\ (((q - 1) % SeqWrap) + 1) % SeqWrap = q
<1>1. PICK W \in Nat \ {0} : W = SeqWrap /\ W >= 2 * Blocks /\ Blocks \in Nat \ {0}
  BY Sizes
<1>2. q \in 0 .. W - 1 /\ i \in 1 .. W - 1 /\ i + 1 \in 1 .. W /\ q \in Int /\ i \in Int
  BY <1>1 DEF Number
<1>3. (q - i) % W = IF q >= i THEN q - i ELSE q - i + W
  BY <1>2
<1>4. (q + 1) % W = IF q = W - 1 THEN 0 ELSE q + 1
  BY <1>2
<1>5. (q - 1) % W = IF q = 0 THEN W - 1 ELSE q - 1
  BY <1>2
<1>6. (((q + 1) % W) - 1) % W = q
  BY <1>2, <1>4
<1>7. (((q + 1) % W) - (i + 1)) % W = (q - i) % W
  <2>1. CASE q = W - 1
    <3>1. ((q + 1) % W) - (i + 1) = -(i + 1) /\ -(i + 1) \in -W .. -1
      BY <1>2, <1>4, <2>1
    <3>2. (-(i + 1)) % W = W - (i + 1)
      BY <1>2, <3>1
    <3> QED BY <1>2, <1>3, <2>1, <3>1, <3>2
  <2>2. CASE q # W - 1
    <3>1. ((q + 1) % W) - (i + 1) = q - i
      BY <1>2, <1>4, <2>2
    <3> QED BY <3>1
  <2> QED BY <2>1, <2>2
<1>8. (((q - 1) % W) + 1) % W = q
  BY <1>2, <1>5
<1>9. (q + 1) % W \in 0 .. W - 1 /\ (q - i) % W \in 0 .. W - 1
  BY <1>2, <1>3, <1>4
<1> QED BY <1>1, <1>6, <1>7, <1>8, <1>9 DEF Number

\* The same for places
LEMMA PlaceBefore ==
  ASSUME NEW p \in Place, NEW i \in 1 .. Blocks
  PROVE  /\ (p + 1) % Blocks \in Place /\ (p - i) % Blocks \in Place
         /\ (((p + 1) % Blocks) - 1) % Blocks = p
         /\ i < Blocks => (((p + 1) % Blocks) - (i + 1)) % Blocks = (p - i) % Blocks
         /\ i < Blocks => (p - i) % Blocks # p
         /\ (((p - 1) % Blocks) + 1) % Blocks = p
         /\ (p - i) % Blocks = IF i <= p THEN p - i ELSE p - i + Blocks
         /\ (p + 1) % Blocks = IF p = Blocks - 1 THEN 0 ELSE p + 1
<1>1. PICK B \in Nat \ {0} : B = Blocks
  BY Sizes
<1>2. p \in 0 .. B - 1 /\ i \in 1 .. B /\ p \in Int /\ i \in Int
  BY <1>1 DEF Place
<1>3. (p - i) % B = IF i <= p THEN p - i ELSE p - i + B
  BY <1>2
<1>4. (p + 1) % B = IF p = B - 1 THEN 0 ELSE p + 1
  BY <1>2
<1>5. (p - 1) % B = IF p = 0 THEN B - 1 ELSE p - 1
  BY <1>2
<1>6. (((p + 1) % B) - 1) % B = p
  BY <1>2, <1>4
<1>7. ASSUME i < B PROVE (((p + 1) % B) - (i + 1)) % B = (p - i) % B
  <2>1. CASE p = B - 1
    <3>1. ((p + 1) % B) - (i + 1) = -(i + 1) /\ -(i + 1) \in -B .. -1
      BY <1>2, <1>4, <1>7, <2>1
    <3>2. (-(i + 1)) % B = B - (i + 1)
      BY <1>2, <3>1
    <3> QED BY <1>2, <1>3, <1>7, <2>1, <3>1, <3>2
  <2>2. CASE p # B - 1
    <3>1. ((p + 1) % B) - (i + 1) = p - i
      BY <1>2, <1>4, <2>2
    <3> QED BY <3>1
  <2> QED BY <2>1, <2>2
<1>8. (((p - 1) % B) + 1) % B = p
  BY <1>2, <1>5
<1>9. (p + 1) % B \in 0 .. B - 1 /\ (p - i) % B \in 0 .. B - 1
  BY <1>2, <1>3, <1>4
<1>10. i < B => (p - i) % B # p
  BY <1>2, <1>3
<1> QED BY <1>1, <1>3, <1>4, <1>6, <1>7, <1>8, <1>9, <1>10 DEF Place

-----------------------------------------------------------------------------
(* The ring *)

\* The blocks before the place of the next record, for a ring that is in order
\* with n records
InOrderWith(rg, h, n) ==
  /\ \A i \in 1 .. n : Valid(rg, Back(h, i)) /\ rg[Back(h, i)].seq = (h.seq - i) % SeqWrap
  /\ \A i \in n + 1 .. Blocks : ~Valid(rg, Back(h, i))

\* A record that is written where the journal is leaves the ring in order, over
\* the wrap of the ring and of the numbers
LEMMA AppendOrder ==
  ASSUME NEW rg \in [Place -> Record], NEW h \in Heads, InOrder(rg, h),
         NEW rec \in Record, rec.kind # "NONE", rec.seq = h.seq,
         NEW k \in Heads, k.next = NextPlace(h), k.seq = NextNumber(h)
  PROVE  InOrder([rg EXCEPT ![h.next] = rec], k)
<1>1. PICK n \in {h.next, Blocks} : InOrderWith(rg, h, n)
  BY DEF InOrder, InOrderWith
<1>2. /\ h.next \in Place /\ h.seq \in Number /\ k.next \in Place /\ k.seq \in Number
      /\ Blocks \in Nat \ {0}
  BY Sizes DEF Heads
<1>3. n \in 0 .. Blocks /\ h.next \in 0 .. Blocks - 1
  BY <1>2 DEF Place
<1> DEFINE new == [rg EXCEPT ![h.next] = rec]
<1>4. Back(k, 1) = h.next /\ h.seq = (k.seq - 1) % SeqWrap
  BY <1>2, PlaceBefore, NumberBefore DEF Back, NextPlace, NextNumber
<1>5. ASSUME NEW i \in 2 .. Blocks
      PROVE  /\ i - 1 \in 1 .. Blocks /\ i - 1 < Blocks
             /\ Back(k, i) = Back(h, i - 1) /\ Back(h, i - 1) # h.next
             /\ (k.seq - i) % SeqWrap = (h.seq - (i - 1)) % SeqWrap
  <2>1. PICK m \in 1 .. Blocks : m = i - 1 /\ i = m + 1 /\ m < Blocks
    BY <1>2
  <2>2. Back(k, m + 1) = Back(h, m) /\ Back(h, m) # h.next
    BY <1>2, <2>1, PlaceBefore DEF Back, NextPlace
  <2>3. (k.seq - (m + 1)) % SeqWrap = (h.seq - m) % SeqWrap
    BY <1>2, NumberBefore DEF NextNumber
  <2> QED BY <2>1, <2>2, <2>3
<1>6. ASSUME NEW i \in 1 .. Blocks PROVE Back(k, i) \in Place /\ Back(h, i) \in Place
  BY <1>2, PlaceBefore DEF Back
<1>7. new[h.next] = rec /\ \A p \in Place : p # h.next => new[p] = rg[p]
  BY <1>2
<1> HIDE DEF new
<1>8. Valid(new, Back(k, 1)) /\ new[Back(k, 1)].seq = (k.seq - 1) % SeqWrap
  BY <1>4, <1>7 DEF Valid
<1>9. \A i \in 2 .. Blocks : new[Back(k, i)] = rg[Back(h, i - 1)]
  BY <1>5, <1>6, <1>7
<1> DEFINE m == IF n + 1 <= Blocks THEN n + 1 ELSE Blocks
<1>10. m \in 1 .. Blocks /\ (m = Blocks \/ m = n + 1) /\ (m - 1 <= n)
  BY <1>2, <1>3
<1>11. m \in {k.next, Blocks}
  <2>1. k.next = IF h.next = Blocks - 1 THEN 0 ELSE h.next + 1
    BY <1>2, PlaceBefore, 1 \in 1 .. Blocks DEF NextPlace
  <2> QED BY <1>1, <1>2, <1>3, <2>1
<1> HIDE DEF m
<1>12. ASSUME NEW i \in 1 .. m PROVE Valid(new, Back(k, i)) /\ new[Back(k, i)].seq = (k.seq - i) % SeqWrap
  <2>1. CASE i = 1
    BY <1>8, <2>1
  <2>2. CASE i # 1
    <3>1. i \in 2 .. Blocks /\ i - 1 \in 1 .. n
      BY <1>2, <1>3, <1>10, <2>2
    <3>2. Valid(rg, Back(h, i - 1)) /\ rg[Back(h, i - 1)].seq = (h.seq - (i - 1)) % SeqWrap
      BY <1>1, <3>1 DEF InOrderWith
    <3> QED BY <1>5, <1>9, <3>1, <3>2 DEF Valid
  <2> QED BY <2>1, <2>2
<1>13. ASSUME NEW i \in m + 1 .. Blocks PROVE ~Valid(new, Back(k, i))
  <2>1. i \in 2 .. Blocks /\ i - 1 \in n + 1 .. Blocks
    BY <1>2, <1>3, <1>10
  <2>2. ~Valid(rg, Back(h, i - 1))
    BY <1>1, <2>1 DEF InOrderWith
  <2> QED BY <1>9, <2>1, <2>2 DEF Valid
<1>14. InOrder(new, k)
  BY <1>11, <1>12, <1>13 DEF InOrder
<1> QED BY <1>14 DEF new

\* One block of the scan
Newest(rg, best, i) ==
  IF Valid(rg, i) /\ (best = -1 \/ jrnl_seq_newer(rg[i].seq, rg[best].seq)) THEN i ELSE best

\* The scan goes through the blocks from the first to the last
LEMMA ScanSteps ==
  ASSUME NEW rg, NEW n \in 0 .. Blocks
  PROVE  \E b \in [0 .. n -> -1 .. Blocks - 1] :
           /\ b[0] = -1 /\ \A k \in 1 .. n : b[k] = Newest(rg, b[k - 1], k - 1)
           /\ jrnl_scan_tail(rg, n) =
                IF b[n] = -1 THEN [next |-> 0, seq |-> 1]
                ELSE [next |-> (b[n] + 1) % Blocks, seq |-> (rg[b[n]].seq + 1) % SeqWrap]
<1> DEFINE V == -1 .. Blocks - 1
           seq == [i \in 1 .. n |-> i - 1]
           Step(f, s) == IF s = {} THEN -1 ELSE Newest(rg, f[s \ {Max(s)}], seq[Max(s)])
           Q(f) == f = [s \in SUBSET DOMAIN seq |-> Step(f, s)]
           iter == CHOOSE f : Q(f)
           best == iter[DOMAIN seq]
<1>1. jrnl_scan_tail(rg, n) = IF best = -1 THEN [next |-> 0, seq |-> 1]
        ELSE [next |-> (best + 1) % Blocks, seq |-> (rg[best].seq + 1) % SeqWrap]
  BY Zenon DEF jrnl_scan_tail, FoldLeft, MapThenFoldSet, Newest
<1>2. DOMAIN seq = 1 .. n /\ n \in Nat /\ Blocks \in Nat \ {0} /\ -1 \in V
  BY Sizes
<1>3. \A v \in V, i \in 1 .. n : Newest(rg, v, seq[i]) \in V
  BY <1>2 DEF Newest
<1> DEFINE g == [i \in 1 .. n |-> [v \in V |-> Newest(rg, v, seq[i])]]
<1>4. g \in [1 .. n -> [V -> V]]
  BY <1>3
<1>5. PICK f \in [SUBSET (1 .. n) -> V] : IsFold(f, n, -1, g)
  <2> HIDE DEF g, V
  <2> QED BY <1>2, <1>4, FoldExists
<1>6. Q(f)
  <2>1. ASSUME NEW s \in SUBSET (1 .. n) PROVE f[s] = Step(f, s)
    <3>1. CASE s = {}
      BY <1>5, <3>1 DEF IsFold
    <3>2. CASE s # {}
      <4>1. Max(s) \in 1 .. n /\ f[s \ {Max(s)}] \in V
        BY <1>2, <3>2, MaxIn
      <4> QED BY <1>5, <3>2, <4>1 DEF IsFold
    <3> QED BY <3>1, <3>2
  <2>2. f = [s \in SUBSET (1 .. n) |-> f[s]]
    OBVIOUS
  <2> HIDE DEF Step
  <2>3. f = [s \in SUBSET (1 .. n) |-> Step(f, s)]
    BY <2>1, <2>2
  <2> QED BY <1>2, <2>3
<1>7. Q(iter)
  <2> HIDE DEF Q
  <2> QED BY <1>6
<1>8. \A s \in SUBSET (1 .. n) : iter[s] = Step(iter, s)
  <2> HIDE DEF iter, Step
  <2> QED BY <1>2, <1>7
<1> HIDE DEF iter
<1>9. iter[{}] = -1
  BY <1>8
<1>10. ASSUME NEW s \in SUBSET (1 .. n), s # {}, iter[s \ {Max(s)}] \in V
       PROVE  iter[s] = g[Max(s)][iter[s \ {Max(s)}]]
  <2>1. Max(s) \in 1 .. n
    BY <1>2, <1>10, MaxIn
  <2> QED BY <1>8, <1>10, <2>1
<1>11. /\ iter[1 .. 0] = -1 /\ \A k \in 0 .. n : iter[1 .. k] \in V
       /\ \A k \in 1 .. n : iter[1 .. k] = g[k][iter[1 .. k - 1]]
  <2> HIDE DEF g, V
  <2>1. FoldsIn(iter, n, V, -1, g)
    BY <1>9, <1>10 DEF FoldsIn
  <2> QED BY <1>2, <1>4, <2>1, FoldPrefix
<1> DEFINE b == [k \in 0 .. n |-> iter[1 .. k]]
<1>12. b \in [0 .. n -> V] /\ b[0] = -1
  BY <1>2, <1>11
<1>13. ASSUME NEW k \in 1 .. n PROVE b[k] = Newest(rg, b[k - 1], k - 1)
  <2>1. k \in 0 .. n /\ k - 1 \in 0 .. n /\ seq[k] = k - 1
    BY <1>2
  <2>2. b[k] = iter[1 .. k] /\ b[k - 1] = iter[1 .. k - 1] /\ iter[1 .. k - 1] \in V
    BY <1>11, <2>1
  <2>3. g[k][iter[1 .. k - 1]] = Newest(rg, iter[1 .. k - 1], seq[k])
    BY <2>2
  <2> QED BY <1>11, <2>1, <2>2, <2>3
<1>14. best = b[n]
  BY <1>2
<1> HIDE DEF b, best, Step, seq, g
<1> QED BY <1>1, <1>12, <1>13, <1>14

\* How many records ago the block p was written
Age(h, p) == IF p < h.next THEN h.next - p ELSE h.next - p + Blocks

\* The age of a block counts back from the place of the next record
LEMMA AgeBack ==
  ASSUME NEW h \in Heads, NEW p \in Place
  PROVE  Age(h, p) \in 1 .. Blocks /\ Back(h, Age(h, p)) = p
<1>1. h.next \in 0 .. Blocks - 1 /\ p \in 0 .. Blocks - 1 /\ Blocks \in Nat \ {0}
  BY Sizes DEF Heads, Place
<1>2. Age(h, p) \in 1 .. Blocks
  BY <1>1 DEF Age
<1>3. h.next \in Place
  BY DEF Heads
<1>4. Back(h, Age(h, p)) = IF Age(h, p) <= h.next THEN h.next - Age(h, p) ELSE h.next - Age(h, p) + Blocks
  BY <1>2, <1>3, PlaceBefore DEF Back
<1> QED BY <1>1, <1>2, <1>4 DEF Age

\* In a ring that is in order, the comparison of the wrapping numbers is the
\* comparison of the ages
LEMMA NewerIsYounger ==
  ASSUME NEW q \in Number, NEW a \in 1 .. Blocks, NEW c \in 1 .. Blocks
  PROVE  jrnl_seq_newer((q - a) % SeqWrap, (q - c) % SeqWrap) <=> a < c
<1>1. PICK W \in Nat \ {0} : W = SeqWrap /\ W >= 2 * Blocks
  BY Sizes
<1>2. PICK B \in Nat \ {0} : B = Blocks
  BY Sizes
<1>3. PICK half \in Nat : half = W \div 2 /\ half >= B /\ 2 * half <= W
  BY <1>1, <1>2, Sizes
<1>4. q \in 0 .. W - 1 /\ a \in 1 .. B /\ c \in 1 .. B /\ 2 * B <= W
  BY <1>1, <1>2 DEF Number
<1>5. PICK x \in Int : x = (q - a) % W /\ x = IF a <= q THEN q - a ELSE q - a + W
  BY <1>4
<1>6. PICK y \in Int : y = (q - c) % W /\ y = IF c <= q THEN q - c ELSE q - c + W
  BY <1>4
<1>7. PICK d \in Int : d = x - y /\ d \in -(W - 1) .. W - 1
  BY <1>4, <1>5, <1>6
<1>8. d % W = IF d >= 0 THEN d ELSE d + W
  BY <1>7
<1>9. d = c - a \/ d = c - a + W \/ d = c - a - W
  BY <1>4, <1>5, <1>6, <1>7
<1>10. d % W = IF a <= c THEN c - a ELSE c - a + W
  BY <1>4, <1>7, <1>8, <1>9
<1>11. d % W \in 1 .. half - 1 <=> a < c
  BY <1>3, <1>4, <1>10
<1> QED BY <1>1, <1>3, <1>5, <1>6, <1>7, <1>11 DEF jrnl_seq_newer

\* A valid block of a ring that is in order has the number of its age
LEMMA NumberOfAge ==
  ASSUME NEW rg, NEW h \in Heads, NEW n \in 0 .. Blocks, InOrderWith(rg, h, n), NEW p \in Place
  PROVE  /\ Valid(rg, p) <=> Age(h, p) <= n
         /\ Valid(rg, p) => rg[p].seq = (h.seq - Age(h, p)) % SeqWrap
<1>1. Age(h, p) \in 1 .. Blocks /\ Back(h, Age(h, p)) = p
  BY AgeBack
<1>2. CASE Age(h, p) <= n
  <2>1. Age(h, p) \in 1 .. n
    BY <1>1, <1>2
  <2> QED BY <1>1, <1>2, <2>1 DEF InOrderWith
<1>3. CASE ~(Age(h, p) <= n)
  <2>1. Age(h, p) \in n + 1 .. Blocks
    BY <1>1, <1>3
  <2> QED BY <1>1, <1>3, <2>1 DEF InOrderWith
<1> QED BY <1>2, <1>3

\* The scan returns a place and a number, whatever it reads
LEMMA ScanType ==
  ASSUME NEW rg \in [Place -> Record], NEW n \in 0 .. Blocks
  PROVE  jrnl_scan_tail(rg, n) \in Heads
<1>1. PICK b \in [0 .. n -> -1 .. Blocks - 1] :
        jrnl_scan_tail(rg, n) =
          IF b[n] = -1 THEN [next |-> 0, seq |-> 1]
          ELSE [next |-> (b[n] + 1) % Blocks, seq |-> (rg[b[n]].seq + 1) % SeqWrap]
  BY ScanSteps
<1>2. b[n] \in -1 .. Blocks - 1 /\ 0 \in Place /\ 1 \in Number /\ Blocks \in Nat \ {0} /\ 1 \in 1 .. Blocks
  BY Sizes DEF Place, Number
<1>3. CASE b[n] = -1
  <2>1. [next |-> 0, seq |-> 1] \in Heads
    BY <1>2 DEF Heads
  <2> QED BY <1>1, <1>3, <2>1
<1>4. CASE b[n] # -1
  <2>1. b[n] \in Place
    BY <1>2, <1>4 DEF Place
  <2>2. rg[b[n]].seq \in Number
    BY <2>1 DEF Record
  <2>3. (b[n] + 1) % Blocks \in Place /\ (rg[b[n]].seq + 1) % SeqWrap \in Number
    BY <1>2, <2>1, <2>2, PlaceBefore, NumberBefore
  <2>4. [next |-> (b[n] + 1) % Blocks, seq |-> (rg[b[n]].seq + 1) % SeqWrap] \in Heads
    BY <2>3 DEF Heads
  <2> QED BY <1>1, <1>4, <2>4
<1> QED BY <1>3, <1>4

\* jrnl_scan_tail finds the place of the next record, wherever the ring and the
\* numbers have wrapped: the ring is in order for the head that it returns
LEMMA ScanOrder ==
  ASSUME NEW rg \in [Place -> Record], NEW h \in Heads, InOrder(rg, h)
  PROVE  InOrder(rg, jrnl_scan_tail(rg, Blocks))
<1>1. PICK n \in {h.next, Blocks} : InOrderWith(rg, h, n)
  BY DEF InOrder, InOrderWith
<1>2. /\ h.next \in 0 .. Blocks - 1 /\ h.next \in Place /\ h.seq \in Number /\ Blocks \in Nat \ {0}
      /\ n \in 0 .. Blocks /\ 1 \in 1 .. Blocks
  BY Sizes DEF Heads, Place
<1>3. PICK b \in [0 .. Blocks -> -1 .. Blocks - 1] :
        /\ b[0] = -1 /\ \A k \in 1 .. Blocks : b[k] = Newest(rg, b[k - 1], k - 1)
        /\ jrnl_scan_tail(rg, Blocks) =
             IF b[Blocks] = -1 THEN [next |-> 0, seq |-> 1]
             ELSE [next |-> (b[Blocks] + 1) % Blocks, seq |-> (rg[b[Blocks]].seq + 1) % SeqWrap]
  <2>1. Blocks \in 0 .. Blocks
    BY <1>2
  <2> QED BY <2>1, ScanSteps
<1> DEFINE Youngest(x, k) ==
             /\ x = -1 => \A p \in 0 .. k - 1 : ~Valid(rg, p)
             /\ x # -1 => /\ x \in 0 .. k - 1 /\ Valid(rg, x)
                          /\ \A p \in 0 .. k - 1 : Valid(rg, p) => Age(h, x) <= Age(h, p)
           K == {k \in Nat : k <= Blocks => Youngest(b[k], k)}
<1>4. 0 \in K
  BY <1>3
<1>5. ASSUME NEW k \in K PROVE k + 1 \in K
  <2> SUFFICES ASSUME k + 1 <= Blocks PROVE Youngest(b[k + 1], k + 1)
    OBVIOUS
  <2>1. k \in Nat /\ k \in Place /\ k + 1 \in 1 .. Blocks /\ k \in 0 .. Blocks /\ (k + 1) - 1 = k
    BY <1>2 DEF Place
  <2>2. Youngest(b[k], k)
    BY <2>1
  <2>3. b[k + 1] = Newest(rg, b[k], k)
    BY <1>3, <2>1
  <2>4. 0 .. (k + 1) - 1 = (0 .. k - 1) \union {k} /\ 0 .. k - 1 \subseteq Place
    BY <1>2, <2>1 DEF Place
  <2>5. \A p \in Place : Age(h, p) \in 1 .. Blocks
    BY AgeBack
  <2>6. CASE ~Valid(rg, k)
    <3>1. b[k + 1] = b[k]
      BY <2>3, <2>6 DEF Newest
    <3> QED BY <2>2, <2>4, <2>6, <3>1
  <2>7. CASE Valid(rg, k) /\ b[k] = -1
    <3>1. b[k + 1] = k /\ k # -1
      BY <2>1, <2>3, <2>7 DEF Newest
    <3>2. \A p \in 0 .. k - 1 : ~Valid(rg, p)
      BY <2>2, <2>7
    <3>3. Age(h, k) <= Age(h, k)
      BY <2>1, <2>5
    <3> QED BY <2>1, <2>4, <2>7, <3>1, <3>2, <3>3
  <2>8. CASE Valid(rg, k) /\ b[k] # -1
    <3>1. PICK x \in Place : x = b[k] /\ Valid(rg, x) /\ x \in 0 .. k - 1
      BY <2>2, <2>4, <2>8
    <3>2. rg[k].seq = (h.seq - Age(h, k)) % SeqWrap /\ rg[x].seq = (h.seq - Age(h, x)) % SeqWrap
      BY <1>1, <1>2, <2>1, <2>8, <3>1, NumberOfAge
    <3>3. jrnl_seq_newer(rg[k].seq, rg[x].seq) <=> Age(h, k) < Age(h, x)
      BY <1>2, <2>1, <2>5, <3>2, NewerIsYounger
    <3>4. b[k + 1] = IF Age(h, k) < Age(h, x) THEN k ELSE x
      BY <2>3, <2>8, <3>1, <3>3 DEF Newest
    <3>5. \A p \in 0 .. k - 1 : Valid(rg, p) => Age(h, x) <= Age(h, p)
      BY <2>2, <2>8, <3>1
    <3>6. CASE Age(h, k) < Age(h, x)
      <4>1. b[k + 1] = k /\ k # -1
        BY <2>1, <3>4, <3>6
      <4>2. \A p \in 0 .. k - 1 : Valid(rg, p) => Age(h, k) <= Age(h, p)
        BY <2>1, <2>4, <2>5, <3>1, <3>5, <3>6
      <4>3. Age(h, k) <= Age(h, k)
        BY <2>1, <2>5
      <4> QED BY <2>1, <2>4, <2>8, <4>1, <4>2, <4>3
    <3>7. CASE ~(Age(h, k) < Age(h, x))
      <4>1. b[k + 1] = x /\ x # -1
        BY <2>8, <3>1, <3>4, <3>7
      <4>2. Age(h, x) <= Age(h, k)
        BY <2>1, <2>5, <3>1, <3>7
      <4> QED BY <2>1, <2>4, <3>1, <3>5, <4>1, <4>2
    <3> QED BY <3>6, <3>7
  <2> QED BY <2>6, <2>7, <2>8
<1>6. Youngest(b[Blocks], Blocks)
  <2>1. K \in SUBSET Nat
    OBVIOUS
  <2>2. K = Nat
    <3> HIDE DEF K
    <3> QED BY <1>4, <1>5, <2>1, NatSets
  <2> QED BY <1>2, <2>2
<1>7. CASE n = 0
  <2>1. \A p \in Place : ~Valid(rg, p)
    <3> SUFFICES ASSUME NEW p \in Place PROVE ~Valid(rg, p)
      OBVIOUS
    <3> QED BY <1>1, <1>2, <1>7, NumberOfAge, AgeBack
  <2>2. b[Blocks] = -1
    BY <1>2, <1>6, <2>1 DEF Place
  <2>3. PICK k \in Heads : k = jrnl_scan_tail(rg, Blocks) /\ k.next = 0
    <3>1. jrnl_scan_tail(rg, Blocks) \in Heads
      BY <1>2, ScanType
    <3> QED BY <1>3, <2>2, <3>1
  <2>4. \A i \in 1 .. Blocks : Back(k, i) \in Place
    BY <1>2, PlaceBefore DEF Back, Heads
  <2>5. InOrderWith(rg, k, 0)
    BY <1>2, <2>1, <2>4 DEF InOrderWith
  <2>6. InOrder(rg, k)
    BY <2>3, <2>5 DEF InOrder, InOrderWith
  <2> QED BY <2>3, <2>6
<1>8. CASE n # 0
  <2> DEFINE p == Back(h, 1)
  <2>1. p \in Place /\ (p + 1) % Blocks = h.next
    BY <1>2, PlaceBefore DEF Back
  <2>2. 1 \in 1 .. n
    BY <1>2, <1>8
  <2>3. Valid(rg, p) /\ rg[p].seq = (h.seq - 1) % SeqWrap
    BY <1>1, <2>2 DEF InOrderWith
  <2>4. Age(h, p) = 1
    <3>1. p = IF 1 <= h.next THEN h.next - 1 ELSE h.next - 1 + Blocks
      BY <1>2, PlaceBefore DEF Back
    <3> HIDE DEF p
    <3> QED BY <1>2, <3>1 DEF Age
  <2> HIDE DEF p
  <2>5. p \in 0 .. Blocks - 1 /\ b[Blocks] # -1
    BY <1>2, <1>6, <2>1, <2>3 DEF Place
  <2>6. b[Blocks] \in Place /\ Age(h, b[Blocks]) <= 1
    BY <1>6, <2>3, <2>4, <2>5 DEF Place
  <2>7. Age(h, b[Blocks]) = 1 /\ Back(h, Age(h, b[Blocks])) = b[Blocks]
    BY <1>2, <2>6, AgeBack
  <2>8. b[Blocks] = p
    BY <2>7 DEF p
  <2>9. (rg[p].seq + 1) % SeqWrap = h.seq
    BY <1>2, <2>3, NumberBefore
  <2>10. jrnl_scan_tail(rg, Blocks) = [next |-> h.next, seq |-> h.seq]
    BY <1>3, <2>1, <2>5, <2>8, <2>9
  <2>11. jrnl_scan_tail(rg, Blocks) = h
    BY <2>10 DEF Heads
  <2> QED BY <2>11
<1> QED BY <1>7, <1>8

-----------------------------------------------------------------------------
(* The line editor *)

\* A new state of the escape sequence or of the end of the line
WithEol(sh, e) == [sh EXCEPT !.eol = e]
WithEsc(sh, e) == [sh EXCEPT !.esc = e]

\* The flags of the line editor leave line and history alone
LEMMA ShellFlags ==
  ASSUME NEW sh, ShellOK(sh)
  PROVE  /\ \A e \in {"NONE", "AFTER_CR", "AFTER_CRCR"} : ShellOK(WithEol(sh, e))
         /\ \A e \in 0 .. 2 : ShellOK(WithEsc(sh, e))
BY DEF ShellOK, Shell, WithEol, WithEsc

\* The history keeps lines
LEMMA HistoryPush ==
  ASSUME NEW hist \in Seq(Line), NEW line \in Line
  PROVE  shell_history_push(hist, line) \in Seq(Line)
<1> DEFINE n == IF Len(hist) < HistMax THEN Len(hist) + 1 ELSE HistMax
<1>1. <<line>> \o hist \in Seq(Line) /\ Len(<<line>> \o hist) = Len(hist) + 1
  OBVIOUS
<1>2. n \in Nat /\ n <= Len(hist) + 1
  BY ShellAssumption
<1> HIDE DEF n
<1>3. SubSeq(<<line>> \o hist, 1, n) \in Seq(Line)
  BY <1>1, <1>2
<1> QED BY <1>3 DEF shell_history_push, n

\* Going up and down in the history stays in it
LEMMA HistoryUp ==
  ASSUME NEW sh, ShellOK(sh)
  PROVE  ShellOK(shell_history_up(sh).sh) /\ shell_history_up(sh).submit = FALSE
<1>1. /\ sh \in Shell /\ sh.nav \in Nat /\ sh.hist \in Seq(Line) /\ sh.nav <= Len(sh.hist)
      /\ sh.line \in Line /\ Len(sh.hist) \in Nat
  BY DEF ShellOK, Shell
<1>2. CASE sh.hist = <<>>
  BY <1>2 DEF shell_history_up, Quiet
<1>3. CASE sh.hist # <<>>
  <2> DEFINE new == IF sh.nav = 0 THEN [sh EXCEPT !.nav = 1, !.scratch = sh.line]
                    ELSE IF sh.nav < Len(sh.hist) THEN [sh EXCEPT !.nav = @ + 1]
                    ELSE sh
  <2>1. new \in Shell /\ new.nav \in 1 .. Len(sh.hist) /\ new.hist = sh.hist
    <3>1. CASE sh.nav = 0
      <4>1. Len(sh.hist) >= 1
        BY <1>1, <1>3
      <4>2. new = [sh EXCEPT !.nav = 1, !.scratch = sh.line]
        BY <3>1
      <4>3. /\ [sh EXCEPT !.nav = 1, !.scratch = sh.line] \in Shell
            /\ [sh EXCEPT !.nav = 1, !.scratch = sh.line].nav = 1
            /\ [sh EXCEPT !.nav = 1, !.scratch = sh.line].hist = sh.hist
        BY <1>1 DEF Shell
      <4> HIDE DEF new
      <4> QED BY <1>1, <4>1, <4>2, <4>3
    <3>2. CASE sh.nav # 0 /\ sh.nav < Len(sh.hist)
      BY <1>1, <1>3, <3>2 DEF Shell
    <3>3. CASE sh.nav # 0 /\ ~(sh.nav < Len(sh.hist))
      BY <1>1, <1>3, <3>3 DEF Shell
    <3> QED BY <3>1, <3>2, <3>3
  <2>2. shell_history_up(sh) = shell_redraw_line(new, sh.hist[new.nav])
    BY <1>3 DEF shell_history_up
  <2> HIDE DEF new
  <2>3. PICK line \in Line : line = sh.hist[new.nav]
    BY <1>1, <2>1
  <2>4. shell_redraw_line(new, line).sh = [new EXCEPT !.line = line]
    BY DEF shell_redraw_line
  <2>5. shell_redraw_line(new, line).submit = FALSE
    BY DEF shell_redraw_line
  <2>6. ShellOK([new EXCEPT !.line = line])
    BY <2>1 DEF ShellOK, Shell
  <2> QED BY <2>2, <2>3, <2>4, <2>5, <2>6
<1> QED BY <1>2, <1>3

\* lineio_history_down stays in the history
LEMMA HistoryDown ==
  ASSUME NEW sh, ShellOK(sh)
  PROVE  ShellOK(shell_history_down(sh).sh) /\ shell_history_down(sh).submit = FALSE
<1>1. /\ sh \in Shell /\ sh.nav \in Nat /\ sh.hist \in Seq(Line) /\ sh.nav <= Len(sh.hist)
      /\ sh.scratch \in Line /\ Len(sh.hist) \in Nat
  BY DEF ShellOK, Shell
<1>2. CASE sh.nav = 0
  BY <1>2 DEF shell_history_down, Quiet
<1>3. CASE sh.nav # 0
  <2> DEFINE new == [sh EXCEPT !.nav = @ - 1]
             text == IF sh.nav = 1 THEN sh.scratch ELSE sh.hist[new.nav]
  <2>1. new \in Shell /\ new.nav = sh.nav - 1 /\ new.hist = sh.hist
    BY <1>1, <1>3 DEF Shell
  <2>2. shell_history_down(sh) = shell_redraw_line(new, text)
    <3>1. CASE sh.nav = 1
      BY <3>1 DEF shell_history_down
    <3>2. CASE sh.nav # 1
      <4>1. sh.nav > 1
        BY <1>1, <1>3, <3>2
      <4> QED BY <1>3, <3>2, <4>1 DEF shell_history_down
    <3> QED BY <3>1, <3>2
  <2> HIDE DEF new
  <2>3. text \in Line
    BY <1>1, <1>3, <2>1
  <2> HIDE DEF text
  <2>4. shell_redraw_line(new, text).sh = [new EXCEPT !.line = text]
    BY DEF shell_redraw_line
  <2>5. shell_redraw_line(new, text).submit = FALSE
    BY DEF shell_redraw_line
  <2>6. ShellOK([new EXCEPT !.line = text])
    BY <1>1, <2>1, <2>3 DEF ShellOK, Shell
  <2> QED BY <2>2, <2>4, <2>5, <2>6
<1> QED BY <1>2, <1>3

\* Submitting a line, and editing it
LEMMA ShellLine ==
  ASSUME NEW sh, ShellOK(sh), NEW c \in Char
  PROVE  /\ ShellOK(shell_submit_line(sh).sh) /\ shell_submit_line(sh).submit = TRUE
         /\ ShellOK(shell_edit(sh, c).sh) /\ shell_edit(sh, c).submit = FALSE
<1>1. sh \in Shell /\ sh.hist \in Seq(Line) /\ sh.line \in Line /\ sh.nav \in Nat /\ sh.nav <= Len(sh.hist)
  BY DEF ShellOK, Shell
<1>2. shell_history_push(sh.hist, sh.line) \in Seq(Line) /\ <<>> \in Line
  BY <1>1, HistoryPush DEF Line
<1>3. ShellOK(shell_submit_line(sh).sh) /\ shell_submit_line(sh).submit = TRUE
  <2> DEFINE hist == shell_history_push(sh.hist, sh.line)
  <2>1. shell_submit_line(sh).sh = [sh EXCEPT !.hist = hist, !.nav = 0, !.scratch = <<>>, !.line = <<>>]
    BY DEF shell_submit_line
  <2>2. hist \in Seq(Line) /\ 0 <= Len(hist)
    BY <1>2
  <2> HIDE DEF hist
  <2>3. ShellOK([sh EXCEPT !.hist = hist, !.nav = 0, !.scratch = <<>>, !.line = <<>>])
    BY <1>1, <1>2, <2>2 DEF ShellOK, Shell
  <2> QED BY <2>1, <2>3 DEF shell_submit_line
<1>4. ASSUME NEW line \in Line PROVE ShellOK([sh EXCEPT !.line = line])
  BY <1>1 DEF ShellOK, Shell
<1>5. sh.line # <<>> => Front(sh.line) \in Line
  BY <1>1 DEF Front, Line
<1>6. Append(sh.line, c) \in Line
  BY <1>1 DEF Line
<1>7. CASE c = "BS" /\ sh.line = <<>>
  BY <1>3, <1>7 DEF shell_edit, Quiet
<1>8. CASE c = "BS" /\ sh.line # <<>>
  BY <1>3, <1>4, <1>5, <1>8 DEF shell_edit, Quiet
<1>9. CASE c # "BS"
  BY <1>1, <1>3, <1>4, <1>6, <1>9 DEF shell_edit, Quiet
<1> QED BY <1>7, <1>8, <1>9

\* A byte keeps the place in the history in bounds
LEMMA ShellTick ==
  ASSUME NEW sh, ShellOK(sh), NEW c \in Char
  PROVE  ShellOK(shell_tick(sh, c).sh) /\ shell_tick(sh, c).submit \in BOOLEAN
<1> DEFINE s == WithEol(sh, "NONE")
<1>1. ShellOK(s)
  BY ShellFlags
<1>2. sh.esc \in 0 .. 2
  BY DEF ShellOK, Shell
<1>3. CASE Swallowed(sh, c)
  <2>1. shell_tick(sh, c) = Quiet(WithEol(sh, IF c = "CR" THEN "AFTER_CRCR" ELSE "NONE"))
    BY <1>3 DEF shell_tick, WithEol
  <2>2. ShellOK(WithEol(sh, IF c = "CR" THEN "AFTER_CRCR" ELSE "NONE"))
    BY ShellFlags
  <2> QED BY <2>1, <2>2 DEF Quiet
<1>4. CASE ~Swallowed(sh, c) /\ sh.esc = 1
  <2>1. shell_tick(sh, c) = Quiet(WithEsc(s, IF c = "[" THEN 2 ELSE 0))
    BY <1>4 DEF shell_tick, WithEol, WithEsc
  <2>2. ShellOK(WithEsc(s, IF c = "[" THEN 2 ELSE 0))
    BY <1>1, ShellFlags
  <2> QED BY <2>1, <2>2 DEF Quiet
<1>5. CASE ~Swallowed(sh, c) /\ sh.esc = 2
  <2> DEFINE t == WithEsc(s, 0)
  <2>1. ShellOK(t)
    BY <1>1, ShellFlags
  <2>2. shell_tick(sh, c) = CASE c = "A" -> shell_history_up(t)
                              [] c = "B" -> shell_history_down(t)
                              [] OTHER -> Quiet(t)
    <3>1. sh.esc # 1 /\ sh.esc # 0
      BY <1>5
    <3> QED BY <1>5, <3>1, Zenon DEF shell_tick, WithEol, WithEsc
  <2> HIDE DEF t
  <2>3. CASE c = "A"
    BY <2>1, <2>2, <2>3, HistoryUp
  <2>4. CASE c = "B"
    BY <2>1, <2>2, <2>4, HistoryDown
  <2>5. CASE c # "A" /\ c # "B"
    <3>1. shell_tick(sh, c) = Quiet(t)
      BY <2>2, <2>5, Zenon
    <3> QED BY <2>1, <3>1 DEF Quiet
  <2> QED BY <2>3, <2>4, <2>5
<1>6. CASE ~Swallowed(sh, c) /\ sh.esc = 0
  <2>1. shell_tick(sh, c) = CASE c = "ESC" -> Quiet(WithEsc(s, 1))
                              [] c = "CR" -> shell_submit_line(WithEol(s, "AFTER_CR"))
                              [] c = "LF" -> shell_submit_line(s)
                              [] OTHER -> shell_edit(s, c)
    <3>1. sh.esc # 1 /\ sh.esc # 2
      BY <1>6
    <3> QED BY <1>6, <3>1, Zenon DEF shell_tick, WithEol, WithEsc
  <2> HIDE DEF s
  <2>2. ShellOK(WithEsc(s, 1)) /\ ShellOK(WithEol(s, "AFTER_CR"))
    BY <1>1, ShellFlags
  <2>3. CASE c = "ESC"
    <3>1. shell_tick(sh, c) = Quiet(WithEsc(s, 1))
      BY <2>1, <2>3
    <3> QED BY <2>2, <3>1 DEF Quiet
  <2>4. CASE c = "CR"
    BY <2>1, <2>2, <2>4, ShellLine
  <2>5. CASE c = "LF"
    BY <1>1, <2>1, <2>5, ShellLine
  <2>6. CASE c \notin {"ESC", "CR", "LF"}
    BY <1>1, <2>1, <2>6, ShellLine
  <2> QED BY <2>3, <2>4, <2>5, <2>6
<1> QED BY <1>2, <1>3, <1>4, <1>5, <1>6

-----------------------------------------------------------------------------
(* The state of the terminal and of the journal, with names for what changes *)

SetTerm(w, t) == [w EXCEPT !.term = t]
SetCmds(w, c) == [w EXCEPT !.cmds = c]
SetJrnl(w, j) == [w EXCEPT !.jrnl = j]
SetRing(w, r) == [w EXCEPT !.ring = r]
SetGhost(w, g) == [w EXCEPT !.ghost = g]

\* The parts of a good state
LEMMA GoodParts ==
  ASSUME NEW w, NEW cut, Good(w, cut)
  PROVE  /\ w \in Worlds /\ TermOK(w.term) /\ w.term \in Term /\ w.cmds \in Seq(Line)
         /\ Len(w.cmds) <= Mailbox /\ w.jrnl \in Jrnl /\ Len(w.jrnl.pending) <= PendingCap
         /\ RingOK(w.ring) /\ w.ring \in [Place -> Record] /\ w.ghost \in Ghost /\ w.ghost.cut = cut
         /\ Order(w.ring, w.jrnl, w.ghost.skew)
BY DEF Good, WorldOK, WorldOrder, TermOK, JrnlOK, RingOK, Worlds

\* A change to one part changes no other
LEMMA SetParts ==
  ASSUME NEW w \in Worlds
  PROVE  /\ \A t \in Term : /\ SetTerm(w, t) \in Worlds /\ SetTerm(w, t).term = t
                            /\ SetTerm(w, t).cmds = w.cmds /\ SetTerm(w, t).jrnl = w.jrnl
                            /\ SetTerm(w, t).ring = w.ring /\ SetTerm(w, t).ghost = w.ghost
         /\ \A c \in Seq(Line) : /\ SetCmds(w, c) \in Worlds /\ SetCmds(w, c).cmds = c
                            /\ SetCmds(w, c).term = w.term /\ SetCmds(w, c).jrnl = w.jrnl
                            /\ SetCmds(w, c).ring = w.ring /\ SetCmds(w, c).ghost = w.ghost
         /\ \A j \in Jrnl : /\ SetJrnl(w, j) \in Worlds /\ SetJrnl(w, j).jrnl = j
                            /\ SetJrnl(w, j).term = w.term /\ SetJrnl(w, j).cmds = w.cmds
                            /\ SetJrnl(w, j).ring = w.ring /\ SetJrnl(w, j).ghost = w.ghost
         /\ \A r \in [Place -> Record] :
                            /\ SetRing(w, r) \in Worlds /\ SetRing(w, r).ring = r
                            /\ SetRing(w, r).term = w.term /\ SetRing(w, r).cmds = w.cmds
                            /\ SetRing(w, r).jrnl = w.jrnl /\ SetRing(w, r).ghost = w.ghost
         /\ \A g \in Ghost : /\ SetGhost(w, g) \in Worlds /\ SetGhost(w, g).ghost = g
                            /\ SetGhost(w, g).term = w.term /\ SetGhost(w, g).cmds = w.cmds
                            /\ SetGhost(w, g).jrnl = w.jrnl /\ SetGhost(w, g).ring = w.ring
<1>1. \A t \in Term : /\ SetTerm(w, t) \in Worlds /\ SetTerm(w, t).term = t
                      /\ SetTerm(w, t).cmds = w.cmds /\ SetTerm(w, t).jrnl = w.jrnl
                      /\ SetTerm(w, t).ring = w.ring /\ SetTerm(w, t).ghost = w.ghost
  BY DEF Worlds, SetTerm
<1>2. \A c \in Seq(Line) : /\ SetCmds(w, c) \in Worlds /\ SetCmds(w, c).cmds = c
                      /\ SetCmds(w, c).term = w.term /\ SetCmds(w, c).jrnl = w.jrnl
                      /\ SetCmds(w, c).ring = w.ring /\ SetCmds(w, c).ghost = w.ghost
  BY DEF Worlds, SetCmds
<1>3. \A j \in Jrnl : /\ SetJrnl(w, j) \in Worlds /\ SetJrnl(w, j).jrnl = j
                      /\ SetJrnl(w, j).term = w.term /\ SetJrnl(w, j).cmds = w.cmds
                      /\ SetJrnl(w, j).ring = w.ring /\ SetJrnl(w, j).ghost = w.ghost
  BY DEF Worlds, SetJrnl
<1>4. \A r \in [Place -> Record] :
                      /\ SetRing(w, r) \in Worlds /\ SetRing(w, r).ring = r
                      /\ SetRing(w, r).term = w.term /\ SetRing(w, r).cmds = w.cmds
                      /\ SetRing(w, r).jrnl = w.jrnl /\ SetRing(w, r).ghost = w.ghost
  BY DEF Worlds, SetRing
<1>5. \A g \in Ghost : /\ SetGhost(w, g) \in Worlds /\ SetGhost(w, g).ghost = g
                      /\ SetGhost(w, g).term = w.term /\ SetGhost(w, g).cmds = w.cmds
                      /\ SetGhost(w, g).jrnl = w.jrnl /\ SetGhost(w, g).ring = w.ring
  BY DEF Worlds, SetGhost
<1> QED BY <1>1, <1>2, <1>3, <1>4, <1>5

\* The same place and number for the next record
SameHead(j, k) == j.on = k.on /\ j.next = k.next /\ j.seq = k.seq

\* Changes that have nothing to do with the order of the ring keep it
LEMMA KeepTerm ==
  ASSUME NEW w, NEW cut, Good(w, cut), NEW t, TermOK(t)
  PROVE  Good(SetTerm(w, t), cut)
<1>1. t \in Term /\ w \in Worlds
  BY GoodParts DEF TermOK
<1> QED BY <1>1, SetParts, GoodParts DEF Good, WorldOK, WorldOrder, JrnlOK

\* ... so does a change of the mailbox
LEMMA KeepCmds ==
  ASSUME NEW w, NEW cut, Good(w, cut), NEW c \in Seq(Line), Len(c) <= Mailbox
  PROVE  Good(SetCmds(w, c), cut)
<1>1. w \in Worlds
  BY GoodParts
<1> QED BY <1>1, SetParts, GoodParts DEF Good, WorldOK, WorldOrder, JrnlOK

\* ... a change of the journal that leaves its head in place
LEMMA KeepJrnl ==
  ASSUME NEW w, NEW cut, Good(w, cut), NEW j \in Jrnl, Len(j.pending) <= PendingCap,
         SameHead(j, w.jrnl)
  PROVE  Good(SetJrnl(w, j), cut)
<1>1. w \in Worlds
  BY GoodParts
<1>2. Order(w.ring, j, w.ghost.skew)
  BY GoodParts DEF Order, SameHead
<1>3. /\ SetJrnl(w, j) \in Worlds /\ SetJrnl(w, j).jrnl = j
      /\ SetJrnl(w, j).term = w.term /\ SetJrnl(w, j).cmds = w.cmds
      /\ SetJrnl(w, j).ring = w.ring /\ SetJrnl(w, j).ghost = w.ghost
  BY <1>1, SetParts
<1> QED BY <1>2, <1>3, GoodParts DEF Good, WorldOK, WorldOrder, JrnlOK

\* ... a change of the history variables that does not concern the ring
LEMMA KeepGhost ==
  ASSUME NEW w, NEW cut, Good(w, cut), NEW g \in Ghost, g.cut = cut, g.skew = w.ghost.skew
  PROVE  Good(SetGhost(w, g), cut)
<1>1. w \in Worlds
  BY GoodParts
<1>2. /\ SetGhost(w, g) \in Worlds /\ SetGhost(w, g).ghost = g
      /\ SetGhost(w, g).term = w.term /\ SetGhost(w, g).cmds = w.cmds
      /\ SetGhost(w, g).jrnl = w.jrnl /\ SetGhost(w, g).ring = w.ring
  BY <1>1, SetParts
<1> QED BY <1>2, GoodParts DEF Good, WorldOK, WorldOrder, JrnlOK

-----------------------------------------------------------------------------
(* The history variables *)

WithDurable(g, v) == [g EXCEPT !.durable = v]
WithComplete(g, S) == [g EXCEPT !.complete = S]
WithSkew(g, b) == [g EXCEPT !.skew = b]

\* What a replay is to rebuild has its type
LEMMA ViewType ==
  ASSUME NEW t, TermOK(t)
  PROVE  View(t) \in TermView
BY DEF View, TermOK, ShellOK, Term, Shell, TermView

\* The terminal starts well
LEMMA TermInitOK == TermOK(TermInit)
<1>1. ShellInit \in Shell /\ ShellInit.nav = 0 /\ ShellInit.hist = <<>>
  BY DEF ShellInit, Shell, Line
<1>2. TermInit \in Term /\ TermInit.sh = ShellInit
  BY <1>1 DEF TermInit, Term
<1> QED BY <1>1, <1>2 DEF TermOK, ShellOK

\* The history variables keep their type and those of the SD task and of the ring
SameGhost(g, h) == g \in Ghost /\ g.cut = h.cut /\ g.skew = h.skew

\* The history variables keep their type, part by part
LEMMA GhostParts ==
  ASSUME NEW g \in Ghost
  PROVE  /\ SameGhost(Lose(g), g)
         /\ \A v \in TermView : SameGhost(WithDurable(g, v), g)
         /\ \A S \in SUBSET (1 .. MaxSnaps) : SameGhost(WithComplete(g, S), g)
         /\ \A b \in BOOLEAN : WithSkew(g, b) \in Ghost /\ WithSkew(g, b).skew = b
                               /\ WithSkew(g, b).cut = g.cut
<1>1. View(TermInit) \in TermView
  BY TermInitOK, ViewType
<1>2. SameGhost(Lose(g), g)
  <2> DEFINE v == View(TermInit)
  <2> HIDE DEF v
  <2>1. Lose(g) = [g EXCEPT !.complete = {}, !.durable = v]
    BY DEF Lose, v
  <2>2. v \in TermView
    BY <1>1 DEF v
  <2>3. SameGhost([g EXCEPT !.complete = {}, !.durable = v], g)
    BY <2>2 DEF SameGhost, Ghost
  <2> QED BY <2>1, <2>3
<1>3. \A v \in TermView : SameGhost(WithDurable(g, v), g)
  BY DEF SameGhost, Ghost, WithDurable
<1>4. \A S \in SUBSET (1 .. MaxSnaps) : SameGhost(WithComplete(g, S), g)
  BY DEF SameGhost, Ghost, WithComplete
<1>5. \A b \in BOOLEAN : WithSkew(g, b) \in Ghost /\ WithSkew(g, b).skew = b
                               /\ WithSkew(g, b).cut = g.cut
  BY DEF Ghost, WithSkew
<1> QED BY <1>2, <1>3, <1>4, <1>5

\* Forgetting a record concerns neither the SD task nor the order of the ring
LEMMA ForgetGhost ==
  ASSUME NEW g \in Ghost, NEW rg, NEW i
  PROVE  SameGhost(Forget(g, rg, i), g)
<1> DEFINE rest == {s \in g.complete : s > rg[i].base}
<1>1. g.complete \in SUBSET (1 .. MaxSnaps) /\ SameGhost(g, g)
  BY DEF Ghost, SameGhost
<1>2. rest \in SUBSET (1 .. MaxSnaps)
  BY <1>1
<1>3. Forget(g, rg, i) = IF ~Valid(rg, i) THEN g
                         ELSE IF rest = {} THEN Lose(g) ELSE WithComplete(g, rest)
  BY Zenon DEF Forget, WithComplete
<1> HIDE DEF rest
<1> QED BY <1>1, <1>2, <1>3, GhostParts

\* The ring is out of order only if it was, or an event left it so
LEMMA SkewedGhost ==
  ASSUME NEW g \in Ghost, NEW rg, NEW j, NEW e \in BOOLEAN
  PROVE  /\ Skewed(g, rg, j, e) \in Ghost /\ Skewed(g, rg, j, e).cut = g.cut
         /\ Skewed(g, rg, j, e).skew = ((g.skew \/ e) /\ ~InOrder(rg, j))
<1> DEFINE skew == (g.skew \/ e) /\ ~InOrder(rg, j)
<1>1. Skewed(g, rg, j, e) = IF skew THEN WithSkew(Lose(g), TRUE) ELSE WithSkew(g, FALSE)
  BY Zenon DEF Skewed, WithSkew
<1>2. Lose(g) \in Ghost /\ Lose(g).cut = g.cut
  BY GhostParts DEF SameGhost
<1> HIDE DEF skew
<1>3. CASE skew
  <2>1. Skewed(g, rg, j, e) = WithSkew(Lose(g), TRUE)
    BY <1>1, <1>3
  <2>2. /\ WithSkew(Lose(g), TRUE) \in Ghost /\ WithSkew(Lose(g), TRUE).skew = TRUE
        /\ WithSkew(Lose(g), TRUE).cut = Lose(g).cut
    BY <1>2, GhostParts
  <2> QED BY <1>2, <1>3, <2>1, <2>2 DEF skew
<1>4. CASE ~skew
  <2>1. Skewed(g, rg, j, e) = WithSkew(g, FALSE)
    BY <1>1, <1>4
  <2>2. /\ WithSkew(g, FALSE) \in Ghost /\ WithSkew(g, FALSE).skew = FALSE
        /\ WithSkew(g, FALSE).cut = g.cut
    BY GhostParts
  <2> QED BY <1>4, <2>1, <2>2 DEF skew
<1> QED BY <1>3, <1>4

-----------------------------------------------------------------------------
(* Appending *)

\* What a step of the journal leaves alone
SameRest(v, w) ==
  /\ v.term = w.term /\ v.cmds = w.cmds /\ v.jrnl.on = w.jrnl.on
  /\ v.jrnl.suppress = w.jrnl.suppress /\ v.jrnl.base = w.jrnl.base

\* What is on the card is recorded
LEMMA SettledKeeps ==
  ASSUME NEW w, NEW cut, Good(w, cut)
  PROVE  Good(Settled(w), cut) /\ SameRest(Settled(w), w) /\ Settled(w).jrnl = w.jrnl
<1>1. w \in Worlds /\ w.ghost \in Ghost /\ View(w.term) \in TermView /\ w.ghost.cut = cut
  BY GoodParts, ViewType
<1> DEFINE g == WithDurable(w.ghost, View(w.term))
<1>2. g \in Ghost /\ g.cut = cut /\ g.skew = w.ghost.skew
  BY <1>1, GhostParts DEF SameGhost
<1>3. Settled(w) = IF w.ghost.complete = {} THEN w ELSE SetGhost(w, g)
  BY <1>1 DEF Settled, SetGhost, WithDurable
<1> HIDE DEF g
<1>4. Good(SetGhost(w, g), cut)
  BY <1>2, KeepGhost
<1>5. SameRest(SetGhost(w, g), w) /\ SetGhost(w, g).jrnl = w.jrnl
  BY <1>1, <1>2, SetParts DEF SameRest
<1>6. SameRest(w, w)
  BY DEF SameRest
<1> QED BY <1>3, <1>4, <1>5, <1>6

\* A record that is appended keeps the ring in order
LEMMA AppendKeeps ==
  ASSUME NEW w, NEW cut, Good(w, cut), w.jrnl.on, NEW kind \in {"RX", "OWNER"},
         NEW data \in Line, Len(data) <= PendingCap
  PROVE  /\ Good(jrnl_append_record(w, kind, data), cut)
         /\ SameRest(jrnl_append_record(w, kind, data), w)
         /\ jrnl_append_record(w, kind, data).jrnl.pending = w.jrnl.pending
<1>1. PICK j \in Jrnl : j = w.jrnl
  BY GoodParts
<1>2. /\ w \in Worlds /\ TermOK(w.term) /\ w.term \in Term /\ w.cmds \in Seq(Line)
      /\ Len(w.cmds) <= Mailbox /\ RingOK(w.ring) /\ w.ring \in [Place -> Record]
      /\ w.ghost \in Ghost /\ w.ghost.cut = cut /\ Order(w.ring, j, w.ghost.skew)
      /\ Len(j.pending) <= PendingCap /\ j.on
  BY <1>1, GoodParts
<1>3. /\ j.next \in Place /\ j.seq \in Number /\ j.base \in 0 .. MaxSnaps /\ j.pending \in Line
      /\ j.on \in BOOLEAN /\ j.suppress \in Nat
  BY DEF Jrnl
<1>4. PICK rec \in Record : rec = [kind |-> kind, seq |-> j.seq, base |-> j.base, data |-> data]
  BY <1>3 DEF Record
<1>5. rec.kind = kind /\ rec.seq = j.seq /\ rec.data = data
  BY <1>4
<1>6. 1 \in 1 .. Blocks
  BY Sizes
<1>7. (j.next + 1) % Blocks \in Place /\ (j.seq + 1) % SeqWrap \in Number
  BY <1>3, <1>6, PlaceBefore, NumberBefore
<1> DEFINE nj == [j EXCEPT !.next = (@ + 1) % Blocks, !.seq = (@ + 1) % SeqWrap]
           rg == [w.ring EXCEPT ![j.next] = rec]
           g == Skewed(Forget(w.ghost, w.ring, j.next), rg, nj, FALSE)
<1>8. /\ nj \in Jrnl /\ nj.next = NextPlace(j) /\ nj.seq = NextNumber(j) /\ nj.on = j.on
      /\ nj.pending = j.pending /\ nj.suppress = j.suppress /\ nj.base = j.base
  BY <1>7 DEF Jrnl, NextPlace, NextNumber
<1>9. RingOK(rg) /\ rg \in [Place -> Record]
  BY <1>2, <1>3, <1>5 DEF RingOK
<1>10. PICK f \in Ghost : f = Forget(w.ghost, w.ring, j.next) /\ f.cut = cut /\ f.skew = w.ghost.skew
  BY <1>2, ForgetGhost DEF SameGhost
<1>11. g \in Ghost /\ g.cut = cut /\ g.skew = (f.skew /\ ~InOrder(rg, nj))
  <2> HIDE DEF rg, nj
  <2> QED BY <1>10, SkewedGhost
<1>12. Order(rg, nj, g.skew)
  <2> SUFFICES ASSUME ~g.skew
               PROVE  \E h \in Heads : InOrder(rg, h) /\ (nj.on => h.next = nj.next /\ h.seq = nj.seq)
    BY DEF Order
  <2>1. PICK k \in Heads : k = [next |-> nj.next, seq |-> nj.seq]
    BY <1>7, <1>8 DEF Heads, NextPlace, NextNumber
  <2>2. k.next = nj.next /\ k.seq = nj.seq
    BY <2>1
  <2>3. InOrder(rg, k) <=> InOrder(rg, nj)
    <3> HIDE DEF rg, nj
    <3> QED BY <2>2 DEF InOrder, Back
  <2>4. CASE f.skew
    <3> HIDE DEF rg, nj, g
    <3> QED BY <1>11, <2>2, <2>3, <2>4
  <2>5. CASE ~f.skew
    <3>1. PICK h \in Heads : InOrder(w.ring, h) /\ h.next = j.next /\ h.seq = j.seq
      BY <1>2, <1>10, <2>5 DEF Order
    <3>2. k.next = NextPlace(h) /\ k.seq = NextNumber(h)
      BY <1>8, <2>2, <3>1 DEF NextPlace, NextNumber
    <3>3. InOrder([w.ring EXCEPT ![h.next] = rec], k)
      BY <1>2, <1>5, <3>1, <3>2, AppendOrder
    <3>4. InOrder(rg, k)
      BY <3>1, <3>3
    <3> HIDE DEF rg, nj, g
    <3> QED BY <2>2, <3>4
  <2> QED BY <2>4, <2>5
<1> DEFINE r == [w EXCEPT !.jrnl = nj, !.ring = rg, !.ghost = g]
<1>13. jrnl_append_record(w, kind, data) = r
  BY <1>1, <1>4, Zenon DEF jrnl_append_record
<1> HIDE DEF nj, rg, g
<1>14. /\ r \in Worlds /\ r.jrnl = nj /\ r.ring = rg /\ r.ghost = g
       /\ r.term = w.term /\ r.cmds = w.cmds
  BY <1>2, <1>8, <1>9, <1>11 DEF Worlds
<1> HIDE DEF r
<1>15. WorldOK(r, cut) /\ WorldOrder(r)
  BY <1>2, <1>8, <1>9, <1>11, <1>12, <1>14 DEF WorldOK, WorldOrder, JrnlOK
<1> QED BY <1>1, <1>8, <1>13, <1>14, <1>15 DEF Good, SameRest

WithPending(j, p) == [j EXCEPT !.pending = p]
WithSuppress(j, n) == [j EXCEPT !.suppress = n]
WithBase(j, b) == [j EXCEPT !.base = b]

\* Changes to the rest of the journal keep its head
LEMMA JrnlParts ==
  ASSUME NEW j \in Jrnl
  PROVE  /\ \A p \in Line : /\ WithPending(j, p) \in Jrnl /\ SameHead(WithPending(j, p), j)
                            /\ WithPending(j, p).pending = p
         /\ \A n \in Nat : /\ WithSuppress(j, n) \in Jrnl /\ SameHead(WithSuppress(j, n), j)
                           /\ WithSuppress(j, n).pending = j.pending
         /\ \A b \in 0 .. MaxSnaps : /\ WithBase(j, b) \in Jrnl /\ SameHead(WithBase(j, b), j)
                                     /\ WithBase(j, b).pending = j.pending
<1>1. \A p \in Line : /\ WithPending(j, p) \in Jrnl /\ SameHead(WithPending(j, p), j)
                      /\ WithPending(j, p).pending = p
  BY DEF Jrnl, WithPending, SameHead
<1>2. \A n \in Nat : /\ WithSuppress(j, n) \in Jrnl /\ SameHead(WithSuppress(j, n), j)
                     /\ WithSuppress(j, n).pending = j.pending
  BY DEF Jrnl, WithSuppress, SameHead
<1>3. \A b \in 0 .. MaxSnaps : /\ WithBase(j, b) \in Jrnl /\ SameHead(WithBase(j, b), j)
                               /\ WithBase(j, b).pending = j.pending
  BY DEF Jrnl, WithBase, SameHead
<1> QED BY <1>1, <1>2, <1>3

\* Setting the bytes that are pending
LEMMA KeepPending ==
  ASSUME NEW w, NEW cut, Good(w, cut), NEW p \in Line, Len(p) <= PendingCap
  PROVE  /\ Good(SetJrnl(w, WithPending(w.jrnl, p)), cut)
         /\ SetJrnl(w, WithPending(w.jrnl, p)).jrnl = WithPending(w.jrnl, p)
         /\ SetJrnl(w, WithPending(w.jrnl, p)).jrnl.pending = p
<1>1. w \in Worlds /\ w.jrnl \in Jrnl
  BY GoodParts
<1>2. /\ WithPending(w.jrnl, p) \in Jrnl /\ SameHead(WithPending(w.jrnl, p), w.jrnl)
      /\ WithPending(w.jrnl, p).pending = p
  BY <1>1, JrnlParts
<1>3. Good(SetJrnl(w, WithPending(w.jrnl, p)), cut)
  BY <1>2, KeepJrnl
<1> QED BY <1>1, <1>2, <1>3, SetParts

\* Losing what a replay could rebuild
LEMMA LoseKeeps ==
  ASSUME NEW w, NEW cut, Good(w, cut)
  PROVE  Good(SetGhost(w, Lose(w.ghost)), cut)
<1>1. w.ghost \in Ghost /\ w.ghost.cut = cut
  BY GoodParts
<1>2. Lose(w.ghost) \in Ghost /\ Lose(w.ghost).cut = cut /\ Lose(w.ghost).skew = w.ghost.skew
  BY <1>1, GhostParts DEF SameGhost
<1> QED BY <1>2, KeepGhost

\* jrnl_flush_pending_rx keeps the ring in order and leaves room in the buffer
LEMMA FlushKeeps ==
  ASSUME NEW w, NEW cut, Good(w, cut), NEW ok \in BOOLEAN
  PROVE  /\ Good(jrnl_flush_pending_rx(w, ok), cut)
         /\ jrnl_flush_pending_rx(w, ok).jrnl.on = w.jrnl.on
<1>1. CASE w.jrnl.pending = <<>> \/ Refused(w) \/ ~ok
  BY <1>1 DEF jrnl_flush_pending_rx
<1>2. CASE ~(w.jrnl.pending = <<>> \/ Refused(w) \/ ~ok)
  <2> DEFINE a == jrnl_append_record(w, "RX", w.jrnl.pending)
             p == SetJrnl(a, WithPending(a.jrnl, <<>>))
  <2>1. w.jrnl \in Jrnl /\ w.jrnl.pending \in Line /\ Len(w.jrnl.pending) <= PendingCap
    BY GoodParts DEF Jrnl
  <2>2. w.jrnl.on
    BY <1>2 DEF Refused
  <2>3. Good(a, cut) /\ a.jrnl.on = w.jrnl.on
    BY <2>1, <2>2, AppendKeeps DEF SameRest
  <2>4. a \in Worlds /\ a.jrnl \in Jrnl
    BY <2>3, GoodParts
  <2>5. jrnl_flush_pending_rx(w, ok) = Settled([a EXCEPT !.jrnl.pending = <<>>])
    BY <1>2, Zenon DEF jrnl_flush_pending_rx
  <2> HIDE DEF a
  <2>6. [a EXCEPT !.jrnl.pending = <<>>] = p
    BY <2>4 DEF SetJrnl, WithPending
  <2>7. <<>> \in Line /\ Len(<<>>) <= PendingCap
    BY Sizes DEF Line
  <2>8. Good(p, cut) /\ p.jrnl = WithPending(a.jrnl, <<>>)
    BY <2>3, <2>7, KeepPending
  <2>9. p.jrnl.on = a.jrnl.on
    BY <2>4, <2>7, <2>8, JrnlParts DEF SameHead
  <2> HIDE DEF p
  <2>10. Good(Settled(p), cut) /\ Settled(p).jrnl = p.jrnl
    BY <2>8, SettledKeeps
  <2> QED BY <2>3, <2>5, <2>6, <2>9, <2>10
<1> QED BY <1>1, <1>2

\* journal_capture_input_byte keeps the buffer within its 64 bytes and the ring in order
LEMMA CaptureKeeps ==
  ASSUME NEW w, NEW cut, Good(w, cut), NEW c \in Char, NEW ok \in BOOLEAN
  PROVE  Good(journal_capture_input_byte(w, c, ok), cut)
<1>1. PICK j \in Jrnl : j = w.jrnl /\ w \in Worlds /\ j.on \in BOOLEAN /\ j.suppress \in Nat /\ Len(j.pending) <= PendingCap
  BY GoodParts DEF Jrnl
<1> DEFINE room == IF Len(j.pending) >= PendingCap THEN jrnl_flush_pending_rx(w, ok) ELSE w
           kept == [room EXCEPT !.jrnl.pending = Append(@, c)]
<1>2. Good(room, cut)
  BY FlushKeeps
<1>3. room \in Worlds /\ room.jrnl \in Jrnl /\ room.jrnl.pending \in Line /\ room.ghost \in Ghost
  BY <1>2, GoodParts DEF Jrnl
<1>4. journal_capture_input_byte(w, c, ok) =
        CASE ~j.on -> [w EXCEPT !.ghost = Lose(@)]
          [] j.on /\ j.suppress > 0 -> [w EXCEPT !.jrnl.suppress = @ - 1, !.ghost = Lose(@)]
          [] j.on /\ j.suppress = 0 /\ Len(room.jrnl.pending) >= PendingCap ->
               [room EXCEPT !.ghost = Lose(@)]
          [] OTHER -> IF c \in {"CR", "LF"} THEN jrnl_flush_pending_rx(kept, ok) ELSE kept
  BY <1>1, Zenon DEF journal_capture_input_byte
<1> HIDE DEF room
<1>5. [w EXCEPT !.ghost = Lose(@)] = SetGhost(w, Lose(w.ghost))
  BY DEF SetGhost
<1>6. [room EXCEPT !.ghost = Lose(@)] = SetGhost(room, Lose(room.ghost))
  BY DEF SetGhost
<1>7. CASE ~j.on
  <2>1. journal_capture_input_byte(w, c, ok) = [w EXCEPT !.ghost = Lose(@)]
    BY <1>4, <1>7, Zenon
  <2> QED BY <1>5, <2>1, LoseKeeps
<1>8. CASE j.on /\ j.suppress > 0
  <2>1. journal_capture_input_byte(w, c, ok) = [w EXCEPT !.jrnl.suppress = @ - 1, !.ghost = Lose(@)]
    <3>1. j.suppress # 0
      BY <1>1, <1>8
    <3> QED BY <1>4, <1>8, <3>1, Zenon
  <2> DEFINE v == SetJrnl(w, WithSuppress(w.jrnl, w.jrnl.suppress - 1))
  <2>2. w.jrnl.suppress - 1 \in Nat
    BY <1>1, <1>8
  <2>3. /\ WithSuppress(w.jrnl, w.jrnl.suppress - 1) \in Jrnl
        /\ SameHead(WithSuppress(w.jrnl, w.jrnl.suppress - 1), w.jrnl)
        /\ WithSuppress(w.jrnl, w.jrnl.suppress - 1).pending = w.jrnl.pending
    BY <1>1, <2>2, JrnlParts
  <2>4. Good(v, cut)
    BY <1>1, <2>3, KeepJrnl
  <2>5. v.ghost = w.ghost
    BY <1>1, <2>3, SetParts
  <2>6. [w EXCEPT !.jrnl.suppress = @ - 1, !.ghost = Lose(@)] = SetGhost(v, Lose(v.ghost))
    <3> DEFINE l == Lose(w.ghost)
    <3> HIDE DEF l
    <3>1. [w EXCEPT !.jrnl.suppress = @ - 1, !.ghost = Lose(@)] = [w EXCEPT !.jrnl.suppress = @ - 1, !.ghost = l]
      BY DEF l
    <3>2. [w EXCEPT !.jrnl.suppress = @ - 1, !.ghost = l] = SetGhost(v, l)
      BY <1>1 DEF SetGhost, SetJrnl, WithSuppress, Worlds
    <3> QED BY <2>5, <3>1, <3>2 DEF l
  <2> QED BY <2>1, <2>4, <2>6, LoseKeeps
<1>9. CASE j.on /\ j.suppress = 0 /\ Len(room.jrnl.pending) >= PendingCap
  <2>1. ~(j.suppress > 0)
    BY <1>9
  <2>2. journal_capture_input_byte(w, c, ok) = [room EXCEPT !.ghost = Lose(@)]
    BY <1>4, <1>9, <2>1, Zenon
  <2> QED BY <1>2, <1>6, <2>2, LoseKeeps
<1>10. CASE j.on /\ j.suppress = 0 /\ ~(Len(room.jrnl.pending) >= PendingCap)
  <2>1. ~(j.suppress > 0)
    BY <1>10
  <2>2. journal_capture_input_byte(w, c, ok) = IF c \in {"CR", "LF"} THEN jrnl_flush_pending_rx(kept, ok) ELSE kept
    BY <1>4, <1>10, <2>1, Zenon
  <2>3. PICK p \in Line : p = Append(room.jrnl.pending, c) /\ Len(p) <= PendingCap
    <3>1. Append(room.jrnl.pending, c) \in Line
      BY <1>3 DEF Line
    <3>2. Len(Append(room.jrnl.pending, c)) = Len(room.jrnl.pending) + 1 /\ Len(room.jrnl.pending) \in Nat
      BY <1>3 DEF Line
    <3>3. Len(Append(room.jrnl.pending, c)) <= PendingCap
      BY <1>10, <3>2, Sizes
    <3> QED BY <3>1, <3>3
  <2>4. kept = SetJrnl(room, WithPending(room.jrnl, p))
    BY <1>3, <2>3 DEF SetJrnl, WithPending, Worlds
  <2> HIDE DEF kept
  <2>5. Good(kept, cut)
    BY <1>2, <2>3, <2>4, KeepPending
  <2> QED BY <2>2, <2>5, FlushKeeps
<1> QED BY <1>1, <1>7, <1>8, <1>9, <1>10

\* journal_capture_io_owner keeps the ring in order
LEMMA OwnerKeeps ==
  ASSUME NEW w, NEW cut, Good(w, cut), NEW what \in Char, NEW ok \in BOOLEAN
  PROVE  Good(journal_capture_io_owner(w, what, ok), cut)
<1> DEFINE f == jrnl_flush_pending_rx(w, ok)
<1>1. Good(f, cut) /\ f.jrnl.on = w.jrnl.on
  BY FlushKeeps
<1>2. journal_capture_io_owner(w, what, ok) =
        IF Refused(w) \/ ~ok THEN [f EXCEPT !.ghost = Lose(@)]
        ELSE Settled(jrnl_append_record(f, "OWNER", <<what>>))
  BY Zenon DEF journal_capture_io_owner
<1> HIDE DEF f
<1>3. [f EXCEPT !.ghost = Lose(@)] = SetGhost(f, Lose(f.ghost))
  BY DEF SetGhost
<1>4. Good(SetGhost(f, Lose(f.ghost)), cut)
  BY <1>1, LoseKeeps
<1>5. ASSUME ~Refused(w) PROVE Good(Settled(jrnl_append_record(f, "OWNER", <<what>>)), cut)
  <2>1. f.jrnl.on
    BY <1>1, <1>5 DEF Refused
  <2>2. <<what>> \in Line /\ Len(<<what>>) <= PendingCap
    <3>1. <<what>> \in Line
      <4>1. \A S : \A x \in S : <<x>> \in Seq(S)
        OBVIOUS
      <4> QED BY <4>1, Zenon DEF Line
    <3>2. Len(<<what>>) = 1 /\ PendingCap >= 1
      BY Sizes
    <3> QED BY <3>1, <3>2
  <2> QED BY <1>1, <2>1, <2>2, AppendKeeps, SettledKeeps
<1> QED BY <1>2, <1>3, <1>4, <1>5

\* journal_note_snapshot_seq keeps the ring in order
LEMMA NoteKeeps ==
  ASSUME NEW w, NEW cut, Good(w, cut), NEW s \in 0 .. MaxSnaps, NEW ok \in BOOLEAN
  PROVE  Good(journal_note_snapshot_seq(w, s, ok), cut)
<1> DEFINE f == jrnl_flush_pending_rx(w, ok)
           b == IF s > f.jrnl.base THEN s ELSE f.jrnl.base
<1>1. Good(f, cut)
  BY FlushKeeps
<1>2. f \in Worlds /\ f.jrnl \in Jrnl /\ Len(f.jrnl.pending) <= PendingCap
  BY <1>1, GoodParts
<1>3. journal_note_snapshot_seq(w, s, ok) = [f EXCEPT !.jrnl.base = IF s > @ THEN s ELSE @]
  BY Zenon DEF journal_note_snapshot_seq
<1> HIDE DEF f
<1>4. [f EXCEPT !.jrnl.base = IF s > @ THEN s ELSE @] = SetJrnl(f, WithBase(f.jrnl, b))
  BY <1>2 DEF SetJrnl, WithBase, Worlds
<1>5. b \in 0 .. MaxSnaps
  BY <1>2 DEF Jrnl
<1> HIDE DEF b
<1>6. /\ WithBase(f.jrnl, b) \in Jrnl /\ SameHead(WithBase(f.jrnl, b), f.jrnl)
      /\ WithBase(f.jrnl, b).pending = f.jrnl.pending
  BY <1>2, <1>5, JrnlParts
<1>7. Good(SetJrnl(f, WithBase(f.jrnl, b)), cut)
  BY <1>1, <1>2, <1>6, KeepJrnl
<1> QED BY <1>3, <1>4, <1>7

-----------------------------------------------------------------------------
(* The terminal *)

WithSh(t, sh) == [t EXCEPT !.sh = sh]
WithQuit(t) == [t EXCEPT !.quit = TRUE]
Killed(t) == [t EXCEPT !.owned = FALSE, !.reg = FALSE, !.quit = FALSE]

\* The terminal keeps its type, part by part
LEMMA TermParts ==
  ASSUME NEW t, TermOK(t)
  PROVE  /\ \A sh : ShellOK(sh) => TermOK(WithSh(t, sh))
         /\ TermOK(WithQuit(t)) /\ TermOK(Killed(t))
         /\ \A b \in BOOLEAN : TermOK(Owned(t, b))
         /\ \A b, r \in BOOLEAN : TermOK([Owned(t, b) EXCEPT !.reg = r])
         /\ \A b, r, q \in BOOLEAN : TermOK([Owned(t, b) EXCEPT !.reg = r, !.quit = q])
         /\ \A r, q \in BOOLEAN : TermOK([t EXCEPT !.reg = r, !.quit = q])
         /\ TermOK([t EXCEPT !.quit = FALSE])
<1>1. t \in Term /\ ShellOK(t.sh) /\ t.sh \in Shell
  BY DEF TermOK, ShellOK
<1>2. \A sh : ShellOK(sh) => TermOK(WithSh(t, sh))
  BY <1>1 DEF WithSh, TermOK, ShellOK, Term
<1>3. TermOK(WithQuit(t)) /\ TermOK(Killed(t)) /\ TermOK([t EXCEPT !.quit = FALSE])
  BY <1>1 DEF WithQuit, Killed, TermOK, Term
<1>4. \A r, q \in BOOLEAN : TermOK([t EXCEPT !.reg = r, !.quit = q])
  BY <1>1 DEF TermOK, Term
<1>5. ASSUME NEW b \in BOOLEAN, NEW r \in BOOLEAN, NEW q \in BOOLEAN
      PROVE  /\ TermOK(Owned(t, b)) /\ TermOK([Owned(t, b) EXCEPT !.reg = r])
             /\ TermOK([Owned(t, b) EXCEPT !.reg = r, !.quit = q])
  <2>1. shell_rx_idle(t.sh) = WithEol(t.sh, "NONE")
    BY DEF shell_rx_idle, WithEol
  <2>2. PICK sh \in Shell : sh = shell_rx_idle(t.sh) /\ ShellOK(sh)
    <3>1. ShellOK(WithEol(t.sh, "NONE"))
      BY <1>1, ShellFlags
    <3> QED BY <2>1, <3>1 DEF ShellOK
  <2>3. Owned(t, b) = [t EXCEPT !.owned = b, !.sh = sh]
    BY <2>2, Zenon DEF Owned
  <2>4. PICK o \in Term : o = Owned(t, b) /\ o.sh = sh
    BY <1>1, <2>3 DEF Term
  <2>5. TermOK(o)
    BY <2>2, <2>4 DEF TermOK
  <2>6. TermOK([o EXCEPT !.reg = r]) /\ TermOK([o EXCEPT !.reg = r, !.quit = q])
    BY <2>2, <2>4 DEF TermOK, Term
  <2> QED BY <2>4, <2>5, <2>6
<1> QED BY <1>2, <1>3, <1>4, <1>5

\* A byte changes the terminal and the mailbox
LEMMA DeliverShape ==
  ASSUME NEW w \in Worlds, TermOK(w.term), Len(w.cmds) <= Mailbox, NEW c \in Char
  PROVE  \E t \in Term, l \in Seq(Line) :
           /\ TermOK(t) /\ Len(l) <= Mailbox
           /\ Deliver(w, c) = SetCmds(SetTerm(w, t), l)
<1>1. w.term \in Term /\ w.cmds \in Seq(Line) /\ w.term.owned \in BOOLEAN /\ Mailbox \in Nat
  BY Sizes DEF Worlds, Term
<1>2. CASE w.term.owned
  <2> DEFINE t == CASE c = "^C" -> Killed(w.term) [] c = "q" -> WithQuit(w.term) [] OTHER -> w.term
  <2>1. TermOK(t)
    <3>1. TermOK(Killed(w.term)) /\ TermOK(WithQuit(w.term))
      BY TermParts
    <3>2. CASE c = "^C"
      BY <3>1, <3>2
    <3>3. CASE c = "q"
      BY <3>1, <3>3
    <3>4. CASE c # "^C" /\ c # "q"
      BY <3>1, <3>4
    <3> QED BY <3>2, <3>3, <3>4
  <2>2. Deliver(w, c) = [w EXCEPT !.term = t]
    BY <1>2, Zenon DEF Deliver, Killed, WithQuit
  <2> HIDE DEF t
  <2>3. t \in Term
    BY <2>1 DEF TermOK
  <2>4. [w EXCEPT !.term = t] = SetCmds(SetTerm(w, t), w.cmds)
    BY <1>1, <2>3 DEF SetCmds, SetTerm, Worlds
  <2> QED BY <1>1, <2>1, <2>2, <2>3, <2>4
<1>3. CASE ~w.term.owned
  <2> DEFINE r == shell_tick(w.term.sh, c)
             send == r.submit /\ w.term.sh.line # <<>> /\ Len(w.cmds) < Mailbox
             l == IF send THEN Append(w.cmds, w.term.sh.line) ELSE w.cmds
             t == WithSh(w.term, r.sh)
  <2>1. ShellOK(w.term.sh) /\ w.term.sh.line \in Line
    BY DEF TermOK, ShellOK, Shell
  <2>2. ShellOK(r.sh)
    BY <2>1, ShellTick
  <2>3. Deliver(w, c) = [w EXCEPT !.term.sh = r.sh, !.cmds = l]
    BY <1>3, Zenon DEF Deliver
  <2>4. PICK sh \in Shell : sh = r.sh
    BY <2>2 DEF ShellOK
  <2>5. l \in Seq(Line) /\ Len(l) <= Mailbox
    <3>1. CASE send
      <4>1. l = Append(w.cmds, w.term.sh.line) /\ Len(w.cmds) < Mailbox
        BY <3>1
      <4> HIDE DEF l, send, r
      <4> QED BY <1>1, <2>1, <4>1
    <3>2. CASE ~send
      <4>1. l = w.cmds
        BY <3>2
      <4> QED BY <1>1, <4>1
    <3> QED BY <3>1, <3>2
  <2>6. TermOK(t)
    BY <2>2, TermParts
  <2> HIDE DEF l, send, r
  <2>7. [w EXCEPT !.term.sh = r.sh, !.cmds = l] = SetCmds(SetTerm(w, t), l)
    BY <1>1, <2>4, <2>5 DEF SetCmds, SetTerm, WithSh, Worlds
  <2>8. t \in Term
    BY <2>6 DEF TermOK
  <2> QED BY <2>3, <2>5, <2>6, <2>7, <2>8
<1> QED BY <1>1, <1>2, <1>3

\* A byte that is delivered concerns neither journal nor ring
LEMMA DeliverKeeps ==
  ASSUME NEW w, NEW cut, Good(w, cut), NEW c \in Char
  PROVE  Good(Deliver(w, c), cut)
<1>1. w \in Worlds /\ TermOK(w.term) /\ Len(w.cmds) <= Mailbox
  BY GoodParts
<1>2. PICK t \in Term, l \in Seq(Line) :
        TermOK(t) /\ Len(l) <= Mailbox /\ Deliver(w, c) = SetCmds(SetTerm(w, t), l)
  BY <1>1, DeliverShape
<1> QED BY <1>2, KeepTerm, KeepCmds

\* Bytes that are captured, then delivered
LEMMA FeedKeeps ==
  ASSUME NEW w, NEW cut, Good(w, cut), NEW c \in Char, NEW ok \in BOOLEAN
  PROVE  Good(Feed(w, c, ok), cut)
<1>1. Good(Deliver(journal_capture_input_byte(w, c, ok), c), cut)
  BY CaptureKeeps, DeliverKeeps
<1> QED BY <1>1, SettledKeeps DEF Feed

\* terminal_task_dispatch: the loop over the bytes of a burst
LEMMA BurstKeeps ==
  ASSUME NEW w, NEW cut, Good(w, cut), NEW seq \in Line, NEW ok \in BOOLEAN
  PROVE  Good(Burst(w, seq, ok), cut)
<1> DEFINE V == {v \in Worlds : Good(v, cut)}
           Step(f, s) == IF s = {} THEN w ELSE Feed(f[s \ {Max(s)}], seq[Max(s)], ok)
           Q(f) == f = [s \in SUBSET DOMAIN seq |-> Step(f, s)]
           iter == CHOOSE f : Q(f)
           end == iter[DOMAIN seq]
<1>1. Burst(w, seq, ok) = IF end.term.owned THEN end ELSE [end EXCEPT !.term.sh = shell_rx_idle(@)]
  BY Zenon DEF Burst, FoldLeft, MapThenFoldSet
<1>2. PICK n \in Nat : DOMAIN seq = 1 .. n /\ \A i \in 1 .. n : seq[i] \in Char
  BY DEF Line
<1>3. \A v \in V, i \in 1 .. n : Feed(v, seq[i], ok) \in V
  <2> SUFFICES ASSUME NEW v \in V, NEW i \in 1 .. n PROVE Feed(v, seq[i], ok) \in V
    OBVIOUS
  <2>1. Good(Feed(v, seq[i], ok), cut)
    BY <1>2, FeedKeeps
  <2> QED BY <2>1, GoodParts
<1>4. w \in V
  BY GoodParts
<1> DEFINE g == [i \in 1 .. n |-> [v \in V |-> Feed(v, seq[i], ok)]]
<1>5. g \in [1 .. n -> [V -> V]]
  BY <1>3
<1>6. PICK f \in [SUBSET (1 .. n) -> V] : IsFold(f, n, w, g)
  <2> HIDE DEF g, V
  <2> QED BY <1>4, <1>5, FoldExists
<1>7. Q(f)
  <2>1. ASSUME NEW s \in SUBSET (1 .. n) PROVE f[s] = Step(f, s)
    <3>1. CASE s = {}
      BY <1>6, <3>1 DEF IsFold
    <3>2. CASE s # {}
      <4>1. Max(s) \in 1 .. n /\ f[s \ {Max(s)}] \in V
        BY <3>2, MaxIn
      <4> HIDE DEF V
      <4> QED BY <1>6, <3>2, <4>1 DEF IsFold
    <3> QED BY <3>1, <3>2
  <2>2. f = [s \in SUBSET (1 .. n) |-> f[s]]
    OBVIOUS
  <2> HIDE DEF Step
  <2>3. f = [s \in SUBSET (1 .. n) |-> Step(f, s)]
    BY <2>1, <2>2
  <2> QED BY <1>2, <2>3
<1>8. Q(iter)
  <2> HIDE DEF Q
  <2> QED BY <1>7
<1>9. \A s \in SUBSET (1 .. n) : iter[s] = Step(iter, s)
  <2> HIDE DEF iter, Step
  <2> QED BY <1>2, <1>8
<1> HIDE DEF iter
<1>10. FoldsIn(iter, n, V, w, g)
  <2>1. iter[{}] = w
    BY <1>9
  <2>2. ASSUME NEW s \in SUBSET (1 .. n), s # {}, iter[s \ {Max(s)}] \in V
        PROVE  iter[s] = g[Max(s)][iter[s \ {Max(s)}]]
    <3>1. Max(s) \in 1 .. n
      BY <2>2, MaxIn
    <3> HIDE DEF V
    <3> QED BY <1>9, <2>2, <3>1
  <2> HIDE DEF g, V
  <2> QED BY <2>1, <2>2 DEF FoldsIn
<1>11. iter[1 .. n] \in V
  <2> HIDE DEF g, V
  <2> QED BY <1>4, <1>5, <1>10, FoldPrefix
<1>12. Good(end, cut)
  BY <1>2, <1>11
<1> HIDE DEF end
<1>13. [end EXCEPT !.term.sh = shell_rx_idle(@)] = SetTerm(end, WithSh(end.term, WithEol(end.term.sh, "NONE")))
  BY Zenon DEF SetTerm, WithSh, WithEol, shell_rx_idle
<1>14. TermOK(end.term) /\ ShellOK(end.term.sh)
  BY <1>12, GoodParts DEF TermOK
<1>15. TermOK(WithSh(end.term, WithEol(end.term.sh, "NONE")))
  BY <1>14, ShellFlags, TermParts
<1>16. Good([end EXCEPT !.term.sh = shell_rx_idle(@)], cut)
  BY <1>12, <1>13, <1>15, KeepTerm
<1> QED BY <1>1, <1>12, <1>16

-----------------------------------------------------------------------------
(* The replay *)

\* A replay leaves the ring and the place of the next record alone
Tame(v, w, cut) ==
  WorldOK(v, cut) /\ SameHead(v.jrnl, w.jrnl) /\ v.ring = w.ring /\ v.ghost = w.ghost

\* The parts of a state that a replay reaches
LEMMA TameParts ==
  ASSUME NEW v, NEW w, NEW cut, Tame(v, w, cut)
  PROVE  /\ v \in Worlds /\ TermOK(v.term) /\ v.term \in Term /\ v.cmds \in Seq(Line)
         /\ Len(v.cmds) <= Mailbox /\ v.jrnl \in Jrnl /\ Len(v.jrnl.pending) <= PendingCap
         /\ v.ring = w.ring /\ RingOK(v.ring) /\ v.ghost \in Ghost /\ v.ghost = w.ghost
         /\ SameHead(v.jrnl, w.jrnl) /\ v.ghost.cut = cut
BY DEF Tame, WorldOK, TermOK, JrnlOK, Worlds

\* A replay may change the terminal
LEMMA TameTerm ==
  ASSUME NEW v, NEW w, NEW cut, Tame(v, w, cut), NEW t, TermOK(t)
  PROVE  Tame(SetTerm(v, t), w, cut)
<1>1. t \in Term /\ v \in Worlds
  BY TameParts DEF TermOK
<1>2. /\ SetTerm(v, t) \in Worlds /\ SetTerm(v, t).term = t
      /\ SetTerm(v, t).cmds = v.cmds /\ SetTerm(v, t).jrnl = v.jrnl
      /\ SetTerm(v, t).ring = v.ring /\ SetTerm(v, t).ghost = v.ghost
  BY <1>1, SetParts
<1> QED BY <1>2, TameParts DEF Tame, WorldOK, JrnlOK

\* A replay may change the mailbox
LEMMA TameCmds ==
  ASSUME NEW v, NEW w, NEW cut, Tame(v, w, cut), NEW l \in Seq(Line), Len(l) <= Mailbox
  PROVE  Tame(SetCmds(v, l), w, cut)
<1>1. v \in Worlds
  BY TameParts
<1>2. /\ SetCmds(v, l) \in Worlds /\ SetCmds(v, l).cmds = l
      /\ SetCmds(v, l).term = v.term /\ SetCmds(v, l).jrnl = v.jrnl
      /\ SetCmds(v, l).ring = v.ring /\ SetCmds(v, l).ghost = v.ghost
  BY <1>1, SetParts
<1> QED BY <1>2, TameParts DEF Tame, WorldOK, JrnlOK

\* A replay may deliver a byte
LEMMA TameDeliver ==
  ASSUME NEW v, NEW w, NEW cut, Tame(v, w, cut), NEW c \in Char
  PROVE  Tame(Deliver(v, c), w, cut)
<1>1. v \in Worlds /\ TermOK(v.term) /\ Len(v.cmds) <= Mailbox
  BY TameParts
<1>2. PICK t \in Term, l \in Seq(Line) :
        TermOK(t) /\ Len(l) <= Mailbox /\ Deliver(v, c) = SetCmds(SetTerm(v, t), l)
  BY <1>1, DeliverShape
<1> QED BY <1>2, TameTerm, TameCmds

\* The bytes of a record
LEMMA TameBytes ==
  ASSUME NEW u, NEW w, NEW cut, Tame(u, w, cut), NEW seq \in Line
  PROVE  Tame(FoldLeft(Deliver, u, seq), w, cut)
<1> DEFINE V == {v \in Worlds : Tame(v, w, cut)}
           Step(f, s) == IF s = {} THEN u ELSE Deliver(f[s \ {Max(s)}], seq[Max(s)])
           Q(f) == f = [s \in SUBSET DOMAIN seq |-> Step(f, s)]
           iter == CHOOSE f : Q(f)
<1>1. FoldLeft(Deliver, u, seq) = iter[DOMAIN seq]
  BY Zenon DEF FoldLeft, MapThenFoldSet
<1>2. PICK n \in Nat : DOMAIN seq = 1 .. n /\ \A i \in 1 .. n : seq[i] \in Char
  BY DEF Line
<1>3. \A v \in V, i \in 1 .. n : Deliver(v, seq[i]) \in V
  <2> SUFFICES ASSUME NEW v \in V, NEW i \in 1 .. n PROVE Deliver(v, seq[i]) \in V
    OBVIOUS
  <2>1. Tame(Deliver(v, seq[i]), w, cut)
    BY <1>2, TameDeliver
  <2> QED BY <2>1, TameParts
<1>4. u \in V
  BY TameParts
<1> DEFINE g == [i \in 1 .. n |-> [v \in V |-> Deliver(v, seq[i])]]
<1>5. g \in [1 .. n -> [V -> V]]
  BY <1>3
<1>6. PICK f \in [SUBSET (1 .. n) -> V] : IsFold(f, n, u, g)
  <2> HIDE DEF g, V
  <2> QED BY <1>4, <1>5, FoldExists
<1>7. Q(f)
  <2>1. ASSUME NEW s \in SUBSET (1 .. n) PROVE f[s] = Step(f, s)
    <3>1. CASE s = {}
      BY <1>6, <3>1 DEF IsFold
    <3>2. CASE s # {}
      <4>1. Max(s) \in 1 .. n /\ f[s \ {Max(s)}] \in V
        BY <3>2, MaxIn
      <4> HIDE DEF V
      <4> QED BY <1>6, <3>2, <4>1 DEF IsFold
    <3> QED BY <3>1, <3>2
  <2>2. f = [s \in SUBSET (1 .. n) |-> f[s]]
    OBVIOUS
  <2> HIDE DEF Step
  <2>3. f = [s \in SUBSET (1 .. n) |-> Step(f, s)]
    BY <2>1, <2>2
  <2> QED BY <1>2, <2>3
<1>8. Q(iter)
  <2> HIDE DEF Q
  <2> QED BY <1>7
<1>9. \A s \in SUBSET (1 .. n) : iter[s] = Step(iter, s)
  <2> HIDE DEF iter, Step
  <2> QED BY <1>2, <1>8
<1> HIDE DEF iter
<1>10. FoldsIn(iter, n, V, u, g)
  <2>1. iter[{}] = u
    BY <1>9
  <2>2. ASSUME NEW s \in SUBSET (1 .. n), s # {}, iter[s \ {Max(s)}] \in V
        PROVE  iter[s] = g[Max(s)][iter[s \ {Max(s)}]]
    <3>1. Max(s) \in 1 .. n
      BY <2>2, MaxIn
    <3> HIDE DEF V
    <3> QED BY <1>9, <2>2, <3>1
  <2> HIDE DEF g, V
  <2> QED BY <2>1, <2>2 DEF FoldsIn
<1>11. iter[1 .. n] \in V
  <2> HIDE DEF g, V
  <2> QED BY <1>4, <1>5, <1>10, FoldPrefix
<1> QED BY <1>1, <1>2, <1>11

\* A replay may process a record: journal_replay_record
LEMMA TameRecord ==
  ASSUME NEW v, NEW w, NEW cut, Tame(v, w, cut), NEW rec \in Record, rec.kind # "NONE", NEW late \in Line
  PROVE  Tame(journal_replay_record(v, rec, late), w, cut)
<1>1. rec.kind \in {"RX", "OWNER"} /\ rec.data \in Line
  BY DEF Record
<1>2. CASE rec.kind = "RX"
  <2> DEFINE d == FoldLeft(Deliver, v, late \o rec.data)
  <2>1. late \o rec.data \in Line
    BY <1>1 DEF Line
  <2>2. Tame(d, w, cut)
    BY <2>1, TameBytes
  <2>3. journal_replay_record(v, rec, late) = [d EXCEPT !.jrnl.suppress = @ + Len(rec.data)]
    BY <1>2, Zenon DEF journal_replay_record
  <2> HIDE DEF d
  <2>4. d \in Worlds /\ d.jrnl \in Jrnl /\ d.jrnl.suppress \in Nat /\ Len(d.jrnl.pending) <= PendingCap
    BY <2>2, TameParts DEF Jrnl
  <2>5. PICK n \in Nat : n = d.jrnl.suppress + Len(rec.data)
    BY <1>1, <2>4 DEF Line
  <2>6. [d EXCEPT !.jrnl.suppress = @ + Len(rec.data)] = SetJrnl(d, WithSuppress(d.jrnl, n))
    BY <2>4, <2>5 DEF SetJrnl, WithSuppress, Worlds
  <2> DEFINE j == WithSuppress(d.jrnl, n)
  <2>7. j \in Jrnl /\ SameHead(j, d.jrnl) /\ j.pending = d.jrnl.pending
    BY <2>4, <2>5, JrnlParts
  <2> HIDE DEF j
  <2>8. /\ SetJrnl(d, j) \in Worlds /\ SetJrnl(d, j).jrnl = j
        /\ SetJrnl(d, j).term = d.term /\ SetJrnl(d, j).cmds = d.cmds
        /\ SetJrnl(d, j).ring = d.ring /\ SetJrnl(d, j).ghost = d.ghost
    BY <2>4, <2>7, SetParts
  <2>9. SameHead(j, w.jrnl)
    BY <2>2, <2>7, TameParts DEF SameHead
  <2>10. Tame(SetJrnl(d, j), w, cut)
    BY <2>2, <2>4, <2>7, <2>8, <2>9, TameParts DEF Tame, WorldOK, JrnlOK
  <2> QED BY <2>3, <2>6, <2>10 DEF j
<1>3. CASE rec.kind = "OWNER"
  <2> DEFINE r(b) == [v EXCEPT !.term = Owned(@, b)]
  <2>1. journal_replay_record(v, rec, late) =
          IF rec.data = <<"ACQUIRE">>
          THEN IF v.term.reg /\ ~v.term.owned THEN r(TRUE) ELSE v
          ELSE IF v.term.owned THEN r(FALSE) ELSE v
    <3>1. rec.kind # "RX"
      BY <1>3
    <3> QED BY <1>3, <3>1, Zenon DEF journal_replay_record
  <2>2. ASSUME NEW b \in BOOLEAN PROVE Tame(r(b), w, cut)
    <3>1. r(b) = SetTerm(v, Owned(v.term, b))
      BY Zenon DEF SetTerm
    <3>2. TermOK(Owned(v.term, b))
      BY TameParts, TermParts
    <3> HIDE DEF r
    <3> QED BY <3>1, <3>2, TameTerm
  <2>3. Tame(r(TRUE), w, cut) /\ Tame(r(FALSE), w, cut)
    BY <2>2
  <2> HIDE DEF r
  <2> QED BY <2>1, <2>3
<1> QED BY <1>1, <1>2, <1>3

\* The records of a replay are those of the ring
LEMMA ReplayType ==
  ASSUME NEW j \in Heads, ring \in [Place -> Record], NEW n \in Nat
  PROVE  /\ ReplayRecords(j, n) \in Seq(Record)
         /\ \A i \in 1 .. Len(ReplayRecords(j, n)) : ReplayRecords(j, n)[i].kind # "NONE"
<1> DEFINE first == IF Valid(ring, j.next) THEN j.next ELSE 0
           At(i) == (first + i) % Blocks
           Fits(i) == /\ Valid(ring, At(i))
                      /\ i = 0 \/ jrnl_seq_newer(ring[At(i)].seq, ring[At(i - 1)].seq)
           Ends(k) == (\A i \in 0 .. k - 1 : Fits(i)) /\ (k = n \/ ~Fits(k))
           m == CHOOSE k \in 0 .. n : Ends(k)
           T == {k \in 0 .. n : k = n \/ ~Fits(k)}
<1>1. ReplayRecords(j, n) = [i \in 1 .. m |-> ring[At(i - 1)]]
  BY Zenon DEF ReplayRecords
<1>2. first \in Nat /\ Blocks \in Nat \ {0}
  BY Sizes DEF Heads, Place
<1> HIDE DEF first
<1>3. \A i \in Nat : At(i) \in Place
  BY <1>2 DEF Place
<1>4. n \in T /\ T \in SUBSET (0 .. n)
  OBVIOUS
<1>5. PICK k \in T : \A i \in T : k <= i
  <2> HIDE DEF T
  <2> QED BY <1>4, LeastElement
<1>6. k \in 0 .. n /\ Ends(k)
  <2>1. ASSUME NEW i \in 0 .. k - 1 PROVE Fits(i)
    <3>1. k \in Nat /\ i \in 0 .. n /\ ~(k <= i)
      BY <1>4
    <3>2. i \notin T
      BY <1>5, <3>1
    <3> HIDE DEF Fits
    <3> QED BY <3>1, <3>2
  <2> HIDE DEF Fits
  <2> QED BY <1>5, <2>1
<1>7. m \in 0 .. n /\ Ends(m)
  <2> HIDE DEF Ends
  <2> QED BY <1>6
<1> HIDE DEF m
<1>8. ASSUME NEW i \in 1 .. m PROVE ring[At(i - 1)] \in Record /\ ring[At(i - 1)].kind # "NONE"
  <2>1. i - 1 \in Nat /\ i - 1 \in 0 .. m - 1
    BY <1>7
  <2>2. Fits(i - 1)
    BY <1>7, <2>1
  <2>3. Valid(ring, At(i - 1))
    BY <2>2
  <2>4. At(i - 1) \in Place
    BY <1>3, <2>1
  <2> HIDE DEF At
  <2> QED BY <2>3, <2>4 DEF Valid
<1> HIDE DEF At
<1>9. m \in Nat
  BY <1>7
<1>10. [i \in 1 .. m |-> ring[At(i - 1)]] \in Seq(Record)
  BY <1>8, <1>9
<1>11. Len([i \in 1 .. m |-> ring[At(i - 1)]]) = m
  BY <1>9
<1> QED BY <1>1, <1>8, <1>10, <1>11

\* The loop over the records
LEMMA TameReplay ==
  ASSUME NEW u, NEW w, NEW cut, Tame(u, w, cut), NEW recs \in Seq(Record),
         \A i \in 1 .. Len(recs) : recs[i].kind # "NONE", NEW since, NEW late \in Line
  PROVE  Tame(journal_replay_from_snapshot(u, recs, since, late), w, cut)
<1> DEFINE bytes == {i \in 1 .. Len(recs) : recs[i].kind = "RX" /\ recs[i].base >= since}
           Loop(v, i) ==
             IF recs[i].base < since THEN v
             ELSE journal_replay_record(v, recs[i], IF i \in bytes /\ i = Min(bytes) THEN late ELSE <<>>)
           seq == [i \in 1 .. Len(recs) |-> i]
           V == {v \in Worlds : Tame(v, w, cut)}
           Step(f, s) == IF s = {} THEN u ELSE Loop(f[s \ {Max(s)}], seq[Max(s)])
           Q(f) == f = [s \in SUBSET DOMAIN seq |-> Step(f, s)]
           iter == CHOOSE f : Q(f)
<1>1. journal_replay_from_snapshot(u, recs, since, late) = iter[DOMAIN seq]
  BY Zenon DEF journal_replay_from_snapshot, FoldLeft, MapThenFoldSet
<1>2. PICK n \in Nat : n = Len(recs) /\ DOMAIN seq = 1 .. n /\ \A i \in 1 .. n : seq[i] = i /\ recs[i] \in Record
  OBVIOUS
<1> HIDE DEF bytes
<1>3. \A v \in V, i \in 1 .. n : Loop(v, seq[i]) \in V
  <2> SUFFICES ASSUME NEW v \in V, NEW i \in 1 .. n PROVE Loop(v, i) \in V
    BY <1>2
  <2>1. PICK l \in Line : l = IF i \in bytes /\ i = Min(bytes) THEN late ELSE <<>>
    <3>1. <<>> \in Line
      BY DEF Line
    <3>2. (IF i \in bytes /\ i = Min(bytes) THEN late ELSE <<>>) \in Line
      BY <3>1
    <3> QED BY <3>2, Zenon
  <2>2. recs[i] \in Record /\ recs[i].kind # "NONE"
    BY <1>2
  <2>3. Tame(journal_replay_record(v, recs[i], l), w, cut)
    BY <2>2, TameRecord
  <2>4. Tame(Loop(v, i), w, cut)
    BY <2>1, <2>3
  <2> HIDE DEF Loop
  <2> QED BY <2>4, TameParts
<1>4. u \in V
  BY TameParts
<1> HIDE DEF Loop
<1> DEFINE g == [i \in 1 .. n |-> [v \in V |-> Loop(v, seq[i])]]
<1>5. g \in [1 .. n -> [V -> V]]
  BY <1>3
<1>6. PICK f \in [SUBSET (1 .. n) -> V] : IsFold(f, n, u, g)
  <2> HIDE DEF g, V
  <2> QED BY <1>4, <1>5, FoldExists
<1>7. Q(f)
  <2>1. ASSUME NEW s \in SUBSET (1 .. n) PROVE f[s] = Step(f, s)
    <3>1. CASE s = {}
      BY <1>6, <3>1 DEF IsFold
    <3>2. CASE s # {}
      <4>1. Max(s) \in 1 .. n /\ f[s \ {Max(s)}] \in V
        BY <3>2, MaxIn
      <4> HIDE DEF V
      <4> QED BY <1>6, <3>2, <4>1 DEF IsFold
    <3> QED BY <3>1, <3>2
  <2>2. f = [s \in SUBSET (1 .. n) |-> f[s]]
    OBVIOUS
  <2> HIDE DEF Step
  <2>3. f = [s \in SUBSET (1 .. n) |-> Step(f, s)]
    BY <2>1, <2>2
  <2> QED BY <1>2, <2>3
<1>8. Q(iter)
  <2> HIDE DEF Q
  <2> QED BY <1>7
<1>9. \A s \in SUBSET (1 .. n) : iter[s] = Step(iter, s)
  <2> HIDE DEF iter, Step
  <2> QED BY <1>2, <1>8
<1> HIDE DEF iter
<1>10. FoldsIn(iter, n, V, u, g)
  <2>1. iter[{}] = u
    BY <1>9
  <2>2. ASSUME NEW s \in SUBSET (1 .. n), s # {}, iter[s \ {Max(s)}] \in V
        PROVE  iter[s] = g[Max(s)][iter[s \ {Max(s)}]]
    <3>1. Max(s) \in 1 .. n
      BY <2>2, MaxIn
    <3> HIDE DEF V
    <3> QED BY <1>9, <2>2, <3>1
  <2> HIDE DEF g, V
  <2> QED BY <2>1, <2>2 DEF FoldsIn
<1>11. iter[1 .. n] \in V
  <2> HIDE DEF g, V
  <2> QED BY <1>4, <1>5, <1>10, FoldPrefix
<1> QED BY <1>1, <1>2, <1>11

-----------------------------------------------------------------------------
(* The SD task and its driver *)

\* The driver is set up anew: a transfer that was under way is cut
LEMMA SdInitKeeps ==
  ASSUME NEW s, NEW cut \in BOOLEAN, SdOK(s, cut)
  PROVE  SdOK(sd_async_init(s), cut \/ s.status = "IN_PROGRESS")
<1>1. s \in SdState /\ 0 \in 0 .. MaxBlocks
  BY SdAssumption DEF SdOK
<1> DEFINE r == sd_async_init(s)
<1>2. r \in SdState /\ r.q = s.q /\ r.op = s.op /\ r.status = "IDLE"
  BY <1>1 DEF sd_async_init, SdState
<1> HIDE DEF r
<1>3. SdQueueOK(r)
  BY <1>2 DEF SdOK, SdQueueOK, Waits
<1>4. \/ r.op = "NONE" \/ cut \/ s.status = "IN_PROGRESS"
      \/ \E i \in 1 .. Len(r.q) : IsEnd(r.q[i])
  BY <1>2 DEF SdOK
<1> QED BY <1>2, <1>3, <1>4 DEF SdOK, r

\* A command asks for a read while the queue is empty
LEMMA SdRequestKeeps ==
  ASSUME NEW s, NEW cut \in BOOLEAN, SdOK(s, cut), s.q = <<>>,
         NEW kind \in {"READ", "TEST"}, NEW blocks \in 1 .. MaxBlocks
  PROVE  SdOK(sd_request(s, Request(kind, blocks)), cut)
<1>1. s \in SdState
  BY DEF SdOK
<1>2. PICK e \in SdEvent : e = Request(kind, blocks) /\ IsRequest(e)
  <2>1. Request(kind, blocks) \in SdEvent
    BY SdAssumption DEF Request, SdEvent
  <2>2. IsRequest(Request(kind, blocks))
    BY DEF Request, IsRequest
  <2> QED BY <2>1, <2>2, Zenon
<1> DEFINE r == sd_request(s, e)
<1>3. r = [s EXCEPT !.q = Append(s.q, e)]
  BY SdAssumption DEF sd_request
<1>4. Append(s.q, e) \in Seq(SdEvent) /\ Len(Append(s.q, e)) = 1 /\ Append(s.q, e)[1] = e
  OBVIOUS
<1>5. /\ r \in SdState /\ r.q = Append(s.q, e) /\ r.op = s.op /\ r.status = s.status
  BY <1>1, <1>3, <1>4 DEF SdState
<1> HIDE DEF r
<1>6. SdQueueOK(r)
  BY <1>2, <1>4, <1>5 DEF SdQueueOK
<1>7. s.op = "NONE" \/ cut \/ s.status = "IN_PROGRESS"
  BY DEF SdOK
<1> QED BY <1>2, <1>5, <1>6, <1>7 DEF SdOK, r

\* The request in front of the queue is served or refused
LEMMA SdServeKeeps ==
  ASSUME NEW s, NEW cut \in BOOLEAN, SdOK(s, cut), s.q # <<>>,
         Head(s.q).sig \in {"READ", "TEST"}, NEW ok \in BOOLEAN
  PROVE  SdOK(sd_task_request(s, ok), cut /\ sd_task_request(s, ok).op # "NONE")
<1>1. s \in SdState /\ s.q \in Seq(SdEvent) /\ 0 \in 0 .. MaxBlocks
  BY SdAssumption DEF SdOK, SdState
<1>2. PICK e \in SdEvent : e = Head(s.q) /\ e = s.q[1] /\ e.sig \in {"READ", "TEST"}
  BY <1>1
<1>3. PICK rest \in Seq(SdEvent) : rest = Tail(s.q)
  <2>1. Tail(s.q) \in Seq(SdEvent)
    BY <1>1
  <2> QED BY <2>1, Zenon
<1>4. \/ rest = <<>> /\ Len(s.q) = 1 /\ IsRequest(s.q[1])
      \/ Len(s.q) = 2 /\ Len(rest) = 1 /\ rest[1] = s.q[2] /\ IsEnd(rest[1]) /\ Waits(s) /\ IsRequest(s.q[1])
  <2>1. ~IsEnd(s.q[1])
    BY <1>2 DEF IsEnd
  <2>2. \/ Len(s.q) = 1 /\ IsRequest(s.q[1])
        \/ Len(s.q) = 2 /\ IsRequest(s.q[1]) /\ IsEnd(s.q[2]) /\ Waits(s)
    BY <2>1 DEF SdOK, SdQueueOK
  <2> QED BY <1>1, <1>3, <2>2
<1>5. CASE s.op # "NONE"
  <2> DEFINE r == [s EXCEPT !.q = rest]
  <2>1. sd_task_request(s, ok) = r
    BY <1>3, <1>5 DEF sd_task_request
  <2>2. r \in SdState /\ r.q = rest /\ r.op = s.op /\ r.status = s.status
    BY <1>1 DEF SdState
  <2> HIDE DEF r
  <2>3. SdQueueOK(r)
    BY <1>4, <2>2 DEF SdQueueOK, Waits
  <2>4. cut \/ s.status = "IN_PROGRESS" \/ \E i \in 1 .. Len(r.q) : IsEnd(r.q[i])
    <3>1. s.op = "NONE" \/ cut \/ s.status = "IN_PROGRESS" \/ \E i \in 1 .. Len(s.q) : IsEnd(s.q[i])
      BY DEF SdOK
    <3>2. ~IsEnd(s.q[1])
      BY <1>2 DEF IsEnd
    <3> QED BY <1>4, <1>5, <2>2, <3>1, <3>2
  <2> QED BY <1>5, <2>1, <2>2, <2>3, <2>4 DEF SdOK
<1>6. CASE s.op = "NONE"
  <2>1. rest = <<>> /\ e.blocks \in 1 .. MaxBlocks
    BY <1>2, <1>4, <1>6 DEF Waits, IsRequest
  <2> DEFINE clean == [[s EXCEPT !.oper = "NONE", !.status = "IDLE", !.left = 0] EXCEPT !.q = rest]
             busy == [[clean EXCEPT !.oper = "READ", !.status = "IN_PROGRESS", !.left = e.blocks] EXCEPT !.op = e.sig]
  <2>2. sd_task_request(s, ok) = IF ok THEN busy ELSE clean
    BY <1>2, <1>3, <1>6, Zenon DEF sd_task_request, sd_async_init, sd_async_read_start
  <2>3. clean \in SdState /\ clean.q = <<>> /\ clean.op = "NONE" /\ clean.status = "IDLE"
    BY <1>1, <1>6, <2>1 DEF SdState
  <2>4. e.blocks \in 0 .. MaxBlocks /\ e.sig \in {"READ", "TEST"}
    BY <1>2, <2>1
  <2> HIDE DEF clean
  <2>5. busy \in SdState /\ busy.q = <<>> /\ busy.op # "NONE" /\ busy.status = "IN_PROGRESS"
    BY <2>3, <2>4 DEF SdState
  <2> HIDE DEF busy
  <2>6. SdOK(clean, FALSE)
    BY <2>3 DEF SdOK, SdQueueOK
  <2>7. SdOK(busy, cut)
    BY <2>5 DEF SdOK, SdQueueOK
  <2>8. CASE ok
    <3>1. (cut /\ busy.op # "NONE") = cut
      BY <2>5
    <3> QED BY <2>2, <2>7, <2>8, <3>1
  <2>9. CASE ~ok
    <3>1. (cut /\ clean.op # "NONE") = FALSE
      BY <2>3
    <3> QED BY <2>2, <2>6, <2>9, <3>1
  <2> QED BY <2>8, <2>9
<1> QED BY <1>5, <1>6

\* The end of a transfer comes to a task that waits for it
LEMMA SdEndKeeps ==
  ASSUME NEW s, NEW cut \in BOOLEAN, SdOK(s, cut), s.q # <<>>, Head(s.q).sig \in {"DONE", "ERROR"}
  PROVE  /\ s.op # "NONE" /\ sd_task_complete(s).op = "NONE"
         /\ SdOK(sd_task_complete(s), FALSE)
<1>1. s \in SdState /\ s.q \in Seq(SdEvent)
  BY DEF SdOK, SdState
<1>2. Head(s.q) = s.q[1]
  BY <1>1
<1>3. ~IsRequest(s.q[1])
  BY <1>2 DEF IsRequest
<1>4. Len(s.q) = 1 /\ Waits(s)
  BY <1>3 DEF SdOK, SdQueueOK
<1>5. Tail(s.q) = <<>>
  <2>1. Tail(s.q) \in Seq(SdEvent) /\ Len(Tail(s.q)) = 0
    BY <1>1, <1>4
  <2>2. \A S : \A q \in Seq(S) : Len(q) = 0 => q = <<>>
    OBVIOUS
  <2> QED BY <2>1, <2>2, Zenon
<1> DEFINE r == sd_task_complete(s)
<1>6. r \in SdState /\ r.op = "NONE" /\ r.q = <<>> /\ r.status = s.status
  <2>1. r = [s EXCEPT !.q = <<>>, !.op = "NONE"]
    BY <1>5, Zenon DEF sd_task_complete
  <2>2. <<>> \in Seq(SdEvent)
    OBVIOUS
  <2> HIDE DEF r
  <2> QED BY <1>1, <2>1, <2>2 DEF SdState
<1> HIDE DEF r
<1>7. SdOK(r, FALSE)
  BY <1>4, <1>6 DEF SdOK, SdQueueOK, Waits
<1> QED BY <1>4, <1>6, <1>7 DEF r, Waits

\* The interrupt finds room for its event
LEMMA SdIrqKeeps ==
  ASSUME NEW s, NEW cut \in BOOLEAN, SdOK(s, cut), s.status = "IN_PROGRESS"
  PROVE  /\ SdOK(sd_irq_data_end(s), cut) /\ Len(sd_irq_data_end(s).q) <= SdQueueCap
         /\ SdOK(sd_irq_error(s), cut) /\ Len(sd_irq_error(s).q) <= SdQueueCap
<1>1. s \in SdState /\ s.q \in Seq(SdEvent) /\ s.left \in 0 .. MaxBlocks /\ s.op # "NONE"
  BY DEF SdOK, SdState
<1>2. SdDone \in SdEvent /\ SdError \in SdEvent /\ IsEnd(SdDone) /\ IsEnd(SdError)
  BY SdAssumption DEF SdDone, SdError, SdEvent, IsEnd
<1>3. s.q = <<>> \/ (Len(s.q) = 1 /\ IsRequest(s.q[1]))
  BY DEF SdOK, SdQueueOK, Waits
<1>4. ASSUME NEW e \in SdEvent, IsEnd(e), NEW r \in SdState, r.q = Append(s.q, e), r.op = s.op,
             r.status # "IN_PROGRESS"
      PROVE  SdOK(r, cut) /\ Len(r.q) <= SdQueueCap
  <2>1. CASE s.q = <<>>
    <3>1. Len(r.q) = 1 /\ r.q[1] = e
      BY <1>4, <2>1
    <3>2. SdQueueOK(r)
      BY <1>1, <1>4, <3>1 DEF SdQueueOK, Waits
    <3>3. \E i \in 1 .. Len(r.q) : IsEnd(r.q[i])
      BY <1>4, <3>1
    <3> QED BY <1>4, <3>1, <3>2, <3>3, SdAssumption DEF SdOK
  <2>2. CASE Len(s.q) = 1 /\ IsRequest(s.q[1])
    <3>1. Len(r.q) = 2 /\ r.q[1] = s.q[1] /\ r.q[2] = e
      BY <1>1, <1>4, <2>2
    <3>2. SdQueueOK(r)
      BY <1>1, <1>4, <2>2, <3>1 DEF SdQueueOK, Waits
    <3>3. \E i \in 1 .. Len(r.q) : IsEnd(r.q[i])
      BY <1>4, <3>1
    <3> QED BY <1>4, <3>1, <3>2, <3>3, SdAssumption DEF SdOK
  <2> QED BY <1>3, <2>1, <2>2
<1>5. SdOK(sd_irq_error(s), cut) /\ Len(sd_irq_error(s).q) <= SdQueueCap
  <2> DEFINE r == sd_irq_error(s)
  <2>1. Append(s.q, SdError) \in Seq(SdEvent)
    BY <1>1, <1>2
  <2>2. r \in SdState /\ r.q = Append(s.q, SdError) /\ r.op = s.op /\ r.status = "ERROR"
    BY <1>1, <2>1 DEF sd_irq_error, SdState
  <2> HIDE DEF r
  <2>3. SdOK(r, cut) /\ Len(r.q) <= SdQueueCap
    BY <1>2, <1>4, <2>2
  <2> QED BY <2>3 DEF r
<1>6. SdOK(sd_irq_data_end(s), cut) /\ Len(sd_irq_data_end(s).q) <= SdQueueCap
  <2> DEFINE r == sd_irq_data_end(s)
  <2>1. CASE s.left > 1
    <3>1. r \in SdState /\ r.q = s.q /\ r.op = s.op /\ r.status = s.status
      <4>1. s.left - 1 \in 0 .. MaxBlocks
        BY <1>1, <2>1, SdAssumption
      <4>2. r = [s EXCEPT !.left = s.left - 1]
        BY <2>1 DEF sd_irq_data_end
      <4> HIDE DEF r
      <4> QED BY <1>1, <4>1, <4>2 DEF SdState
    <3> HIDE DEF r
    <3>2. SdOK(r, cut)
      BY <1>3, <3>1 DEF SdOK, SdQueueOK
    <3>3. Len(r.q) <= SdQueueCap
      <4>1. Len(s.q) <= 1
        <5>1. CASE s.q = <<>>
          BY <5>1
        <5>2. CASE Len(s.q) = 1
          BY <5>2
        <5> QED BY <1>3, <5>1, <5>2
      <4> QED BY <3>1, <4>1, <1>1, SdAssumption
    <3> QED BY <3>2, <3>3 DEF r
  <2>2. CASE ~(s.left > 1)
    <3>1. Append(s.q, SdDone) \in Seq(SdEvent) /\ 0 \in 0 .. MaxBlocks
      BY <1>1, <1>2, SdAssumption
    <3>2. r \in SdState /\ r.q = Append(s.q, SdDone) /\ r.op = s.op /\ r.status = "COMPLETE"
      BY <1>1, <2>2, <3>1 DEF sd_irq_data_end, SdState
    <3> HIDE DEF r
    <3>3. SdOK(r, cut) /\ Len(r.q) <= SdQueueCap
      BY <1>2, <1>4, <3>2
    <3> QED BY <3>3 DEF r
  <2> QED BY <2>1, <2>2
<1> QED BY <1>5, <1>6

-----------------------------------------------------------------------------
(* The steps *)

\* World gathers the variables
LEMMA WorldParts ==
  /\ World.term = term /\ World.cmds = cmds /\ World.jrnl = jrnl
  /\ World.ring = ring /\ World.ghost = ghost
BY DEF World

\* What the invariant says about the variables
LEMMA StateParts ==
  ASSUME IInv
  PROVE  /\ World \in Worlds /\ TermOK(term) /\ term \in Term /\ cmds \in Seq(Line)
         /\ Len(cmds) <= Mailbox /\ jrnl \in Jrnl /\ Len(jrnl.pending) <= PendingCap
         /\ RingOK(ring) /\ ring \in [Place -> Record] /\ ghost \in Ghost
         /\ Order(ring, jrnl, ghost.skew) /\ ghost.cut \in BOOLEAN
<1>1. Good(World, ghost.cut)
  BY DEF IInv
<1>2. ghost \in Ghost
  BY <1>1, GoodParts, WorldParts
<1>3. ghost.cut \in BOOLEAN
  BY <1>2 DEF Ghost
<1> QED BY <1>1, <1>3, GoodParts, WorldParts

\* Become sets the variables to the state it is given
LEMMA WorldIs ==
  ASSUME NEW w \in Worlds, Become(w)
  PROVE  World' = w
<1>1. w = [term |-> w.term, cmds |-> w.cmds, jrnl |-> w.jrnl, ring |-> w.ring, ghost |-> w.ghost]
  BY DEF Worlds
<1>2. World' = [term |-> w.term, cmds |-> w.cmds, jrnl |-> w.jrnl, ring |-> w.ring, ghost |-> w.ghost]
  BY DEF World, Become
<1> QED BY <1>1, <1>2

\* A handler of the terminal
LEMMA BecomeKeeps ==
  ASSUME IInv, NEW w, Good(w, ghost.cut), Become(w), mode' \in {"RUN", "OFF"},
         SdOK(sd', ghost.cut), SnapsOK', InputOK'
  PROVE  IInv'
<1>1. w \in Worlds /\ w.ghost.cut = ghost.cut
  BY GoodParts
<1>2. World' = w
  BY <1>1, WorldIs
<1>3. ghost' = w.ghost
  BY DEF Become
<1>4. Good(World', ghost'.cut) /\ SdOK(sd', ghost'.cut)
  BY <1>1, <1>2, <1>3
<1> QED BY <1>4 DEF IInv

\* The bounds count
LEMMA FaultyType ==
  ASSUME NEW ok \in BOOLEAN, Faulty(ok), count \in [boots : Nat, faults : Nat]
  PROVE  count' \in [boots : Nat, faults : Nat]
BY DEF Faulty

\* The variables of the snapshots and those of the input change separately
LEMMA SameSnaps ==
  ASSUME SnapsOK, UNCHANGED <<trigger, snaps, last, from>>
  PROVE  SnapsOK'
BY DEF SnapsOK, NextSnap, Snapshots

\* terminal_task_dispatch reads a burst
LEMMA InputStep ==
  ASSUME IInv, NEW ok \in BOOLEAN, Input(ok)
  PROVE  IInv'
<1>1. Good(World, ghost.cut) /\ input \in Seq(Line) /\ input # <<>>
  BY DEF IInv, InputOK, Input
<1>2. Head(input) \in Line /\ Tail(input) \in Seq(Line)
  BY <1>1
<1>3. Good(Burst(World, Head(input), ok), ghost.cut)
  BY <1>1, <1>2, BurstKeeps
<1>4. Become(Burst(World, Head(input), ok)) /\ Faulty(ok) /\ input' = Tail(input)
  BY DEF Input
<1>5. InputOK'
  BY <1>2, <1>4, FaultyType DEF IInv, InputOK
<1>6. SnapsOK'
  BY SameSnaps DEF IInv, Input
<1>7. mode' \in {"RUN", "OFF"} /\ SdOK(sd', ghost.cut)
  BY DEF IInv, Input
<1> QED BY <1>3, <1>4, <1>5, <1>6, <1>7, BecomeKeeps

\* The key that ends the game
LEMMA GameStopStep ==
  ASSUME IInv, NEW ok \in BOOLEAN, GameStop(ok)
  PROVE  IInv'
<1>1. Good(World, ghost.cut) /\ TermOK(term)
  BY StateParts DEF IInv
<1> DEFINE w == [World EXCEPT !.term = [Owned(term, FALSE) EXCEPT !.reg = FALSE, !.quit = FALSE]]
           e == [World EXCEPT !.term.reg = FALSE, !.term.quit = FALSE]
<1>2. /\ Become(IF term.owned THEN journal_capture_io_owner(w, "RELEASE", ok) ELSE e)
      /\ Faulty(ok) /\ UNCHANGED <<mode, sd, trigger, snaps, last, from, input>>
  BY DEF GameStop
<1>3. Good(w, ghost.cut)
  <2>1. w = SetTerm(World, [Owned(term, FALSE) EXCEPT !.reg = FALSE, !.quit = FALSE])
    BY Zenon DEF SetTerm
  <2>2. TermOK([Owned(term, FALSE) EXCEPT !.reg = FALSE, !.quit = FALSE])
    BY <1>1, TermParts
  <2> QED BY <1>1, <2>1, <2>2, KeepTerm
<1>4. Good(e, ghost.cut)
  <2>1. World \in Worlds /\ term \in Term /\ World.term = term
    BY StateParts, WorldParts
  <2>2. e = SetTerm(World, [term EXCEPT !.reg = FALSE, !.quit = FALSE])
    BY <2>1 DEF SetTerm, Worlds, Term
  <2>3. TermOK([term EXCEPT !.reg = FALSE, !.quit = FALSE])
    BY <1>1, TermParts
  <2> QED BY <1>1, <2>2, <2>3, KeepTerm
<1> HIDE DEF w, e
<1>5. Good(journal_capture_io_owner(w, "RELEASE", ok), ghost.cut)
  <2>1. "RELEASE" \in Char
    BY DEF Char
  <2> QED BY <1>3, <2>1, OwnerKeeps, Zenon
<1> DEFINE r == IF term.owned THEN journal_capture_io_owner(w, "RELEASE", ok) ELSE e
<1>6. Good(r, ghost.cut) /\ Become(r)
  BY <1>2, <1>4, <1>5
<1> HIDE DEF r
<1>7. InputOK'
  BY <1>2, FaultyType DEF IInv, InputOK
<1>8. SnapsOK'
  BY <1>2, SameSnaps DEF IInv
<1>9. mode' \in {"RUN", "OFF"} /\ SdOK(sd', ghost.cut)
  BY <1>2 DEF IInv
<1> QED BY <1>6, <1>7, <1>8, <1>9, BecomeKeeps

\* The line that a command takes from the mailbox
LEMMA TakeLine ==
  ASSUME IInv, cmds # <<>>
  PROVE  Tail(cmds) \in Seq(Line) /\ Len(Tail(cmds)) <= Mailbox
<1>1. cmds \in Seq(Line) /\ Len(cmds) <= Mailbox
  BY StateParts
<1>2. Tail(cmds) \in Seq(Line) /\ Len(Tail(cmds)) = Len(cmds) - 1 /\ Len(cmds) \in Nat
  BY <1>1
<1> QED BY <1>1, <1>2, Sizes

\* The command that starts the game
LEMMA CmdGameStep ==
  ASSUME IInv, NEW ok \in BOOLEAN, CmdGame(ok)
  PROVE  IInv'
<1>1. Good(World, ghost.cut) /\ TermOK(term) /\ cmds # <<>>
  BY StateParts DEF IInv, CmdGame, Command
<1> DEFINE w == [World EXCEPT !.cmds = Tail(@)]
           o == [w EXCEPT !.term = [Owned(@, TRUE) EXCEPT !.reg = TRUE]]
           a == journal_capture_io_owner(o, "ACQUIRE", ok)
           e == [a EXCEPT !.ghost = Lose(@)]
<1>2. /\ Become(IF term.owned THEN w ELSE e)
      /\ Faulty(ok) /\ UNCHANGED <<mode, sd, trigger, snaps, last, from, input>>
  BY Zenon DEF CmdGame
<1>3. Good(w, ghost.cut) /\ w.term = term
  <2>1. w = SetCmds(World, Tail(cmds))
    BY WorldParts, Zenon DEF SetCmds
  <2>2. SetCmds(World, Tail(cmds)).term = World.term
    BY <1>1, TakeLine, StateParts, SetParts
  <2> HIDE DEF w
  <2> QED BY <1>1, <2>1, <2>2, TakeLine, KeepCmds, WorldParts
<1> HIDE DEF w
<1>4. Good(o, ghost.cut)
  <2>1. o = SetTerm(w, [Owned(term, TRUE) EXCEPT !.reg = TRUE])
    BY <1>3, Zenon DEF SetTerm
  <2>2. TermOK([Owned(term, TRUE) EXCEPT !.reg = TRUE])
    BY <1>1, TermParts
  <2> QED BY <1>3, <2>1, <2>2, KeepTerm
<1> HIDE DEF o
<1>5. Good(a, ghost.cut)
  <2>1. "ACQUIRE" \in Char
    BY DEF Char
  <2> QED BY <1>4, <2>1, OwnerKeeps, Zenon
<1> HIDE DEF a
<1>6. Good(e, ghost.cut)
  <2>1. e = SetGhost(a, Lose(a.ghost))
    BY DEF SetGhost
  <2> QED BY <1>5, <2>1, LoseKeeps
<1> HIDE DEF e
<1> DEFINE r == IF term.owned THEN w ELSE e
<1>7. Good(r, ghost.cut) /\ Become(r)
  BY <1>2, <1>3, <1>6
<1> HIDE DEF r
<1>8. InputOK'
  BY <1>2, FaultyType DEF IInv, InputOK
<1>9. SnapsOK'
  BY <1>2, SameSnaps DEF IInv
<1>10. mode' \in {"RUN", "OFF"} /\ SdOK(sd', ghost.cut)
  BY <1>2 DEF IInv
<1> QED BY <1>7, <1>8, <1>9, <1>10, BecomeKeeps

\* Any other step, part by part
LEMMA GoodNext ==
  ASSUME TermOK(term'), cmds' \in Seq(Line), Len(cmds') <= Mailbox, JrnlOK(jrnl'), RingOK(ring'),
         ghost' \in Ghost, Order(ring', jrnl', ghost'.skew)
  PROVE  Good(World', ghost'.cut)
<1>1. /\ World'.term = term' /\ World'.cmds = cmds' /\ World'.jrnl = jrnl'
      /\ World'.ring = ring' /\ World'.ghost = ghost'
  BY DEF World
<1>2. term' \in Term /\ jrnl' \in Jrnl /\ ring' \in [Place -> Record]
  BY DEF TermOK, JrnlOK, RingOK
<1>3. World' \in Worlds
  BY <1>2 DEF World, Worlds
<1> HIDE DEF World
<1> QED BY <1>1, <1>3 DEF Good, WorldOK, WorldOrder

WithCut(g, b) == [g EXCEPT !.cut = b]

\* A transfer that was cut concerns neither types nor ring
LEMMA CutGhost ==
  ASSUME NEW g \in Ghost, NEW b \in BOOLEAN
  PROVE  WithCut(g, b) \in Ghost /\ WithCut(g, b).cut = b /\ WithCut(g, b).skew = g.skew
BY DEF Ghost, WithCut

\* Steps that change nothing of the terminal and the journal, except that a
\* command has been taken
LEMMA QuietKeeps ==
  ASSUME IInv, UNCHANGED <<term, jrnl, ring>>,
         cmds' = cmds \/ (cmds # <<>> /\ cmds' = Tail(cmds)),
         ghost' \in Ghost, ghost'.skew = ghost.skew
  PROVE  Good(World', ghost'.cut)
<1>1. cmds' \in Seq(Line) /\ Len(cmds') <= Mailbox
  BY StateParts, TakeLine
<1>2. TermOK(term') /\ JrnlOK(jrnl') /\ RingOK(ring') /\ Order(ring', jrnl', ghost'.skew)
  BY StateParts DEF JrnlOK
<1> QED BY <1>1, <1>2, GoodNext

\* ... and that leave the history variables alone too
LEMMA QuietSame ==
  ASSUME IInv, UNCHANGED <<term, jrnl, ring, ghost>>,
         cmds' = cmds \/ (cmds # <<>> /\ cmds' = Tail(cmds))
  PROVE  Good(World', ghost'.cut)
<1>1. ghost' \in Ghost /\ ghost'.skew = ghost.skew
  BY StateParts
<1> QED BY <1>1, QuietKeeps

\* The number of the next snapshot
LEMMA NextSnapType ==
  ASSUME SnapsOK
  PROVE  /\ NextSnap \in 1 .. MaxSnaps + 1
         /\ trigger => NextSnap \in 1 .. MaxSnaps
<1>1. MaxSnaps \in Nat /\ Snapshots \in SUBSET (1 .. MaxSnaps)
  BY Sizes DEF Snapshots
<1>2. Snapshots # {} => Max(Snapshots) \in 1 .. MaxSnaps
  BY <1>1, MaxIn
<1>3. NextSnap \in 1 .. MaxSnaps + 1
  BY <1>1, <1>2 DEF NextSnap
<1> QED BY <1>1, <1>3 DEF SnapsOK

\* A snapshot takes its slot
LEMMA StoredOK ==
  ASSUME SnapsOK, NEW s, NEW m, ImageOK(m)
  PROVE  DOMAIN Stored(s, m) = 1 .. MaxSnaps /\ \A i \in 1 .. MaxSnaps : ImageOK(Stored(s, m)[i])
<1>1. ImageOK(NoImage)
  BY DEF ImageOK
<1> QED BY <1>1 DEF Stored, SnapsOK

\* The image that a snapshot stores is a good one
LEMMA ImageIsOK ==
  ASSUME IInv
  PROVE  ImageOK(Image)
<1>1. term \in Term /\ TermOK(term) /\ sd.op \in SdOps
  BY StateParts DEF IInv, SdOK, SdState, SdOps
<1>2. Image \in Images /\ Image.term = term
  BY <1>1 DEF Image, Images
<1> QED BY <1>1, <1>2 DEF ImageOK

\* sdread, sdaread and sdtest
LEMMA CmdReadStep ==
  ASSUME IInv, NEW kind \in {"READ", "TEST"}, NEW blocks \in 1 .. MaxBlocks, CmdRead(kind, blocks)
  PROVE  IInv'
<1>1. /\ cmds # <<>> /\ cmds' = Tail(cmds) /\ sd.q = <<>> /\ sd' = sd_request(sd, Request(kind, blocks))
      /\ UNCHANGED <<mode, term, jrnl, ring, trigger, snaps, last, from, ghost, count, input>>
  BY DEF CmdRead, Command, Urgent
<1>2. SdOK(sd', ghost'.cut)
  BY <1>1, StateParts, SdRequestKeeps DEF IInv
<1>3. Good(World', ghost'.cut)
  BY <1>1, QuietSame
<1>4. SnapsOK' /\ InputOK' /\ mode' \in {"RUN", "OFF"}
  BY <1>1, SameSnaps DEF IInv, InputOK
<1> QED BY <1>2, <1>3, <1>4 DEF IInv

\* The driver is set up anew
LEMMA CutKeeps ==
  ASSUME IInv, ghost' = Cut, sd' = sd_async_init(sd), UNCHANGED <<term, jrnl, ring>>,
         cmds' = cmds \/ (cmds # <<>> /\ cmds' = Tail(cmds))
  PROVE  Good(World', ghost'.cut) /\ SdOK(sd', ghost'.cut)
<1>1. ghost \in Ghost /\ ghost.cut \in BOOLEAN
  BY StateParts
<1> DEFINE b == ghost.cut \/ sd.status = "IN_PROGRESS"
<1>2. b \in BOOLEAN /\ ghost' = WithCut(ghost, b)
  BY <1>1, Zenon DEF Cut, WithCut
<1>3. SdOK(sd', b)
  BY <1>1, SdInitKeeps DEF IInv
<1> HIDE DEF b
<1>4. ghost' \in Ghost /\ ghost'.cut = b /\ ghost'.skew = ghost.skew
  BY <1>1, <1>2, CutGhost
<1>5. Good(World', ghost'.cut)
  BY <1>4, QuietKeeps
<1> QED BY <1>3, <1>4, <1>5

\* sdinit
LEMMA CmdSdInitStep ==
  ASSUME IInv, CmdSdInit
  PROVE  IInv'
<1>1. /\ cmds # <<>> /\ cmds' = Tail(cmds) /\ sd' = sd_async_init(sd) /\ ghost' = Cut
      /\ UNCHANGED <<mode, term, jrnl, ring, trigger, snaps, last, from, count, input>>
  BY DEF CmdSdInit, Command
<1>2. Good(World', ghost'.cut) /\ SdOK(sd', ghost'.cut)
  BY <1>1, CutKeeps
<1>3. SnapsOK' /\ InputOK' /\ mode' \in {"RUN", "OFF"}
  BY <1>1, SameSnaps DEF IInv, InputOK
<1> QED BY <1>2, <1>3 DEF IInv

\* A snapshot is asked for, by the command or by the interval
LEMMA CmdSnapshotStep ==
  ASSUME IInv, CmdSnapshot \/ SnapTick
  PROVE  IInv'
<1>1. /\ (cmds # <<>> /\ cmds' = Tail(cmds)) \/ cmds' = cmds
      /\ NextSnap <= MaxSnaps /\ trigger' = TRUE
      /\ UNCHANGED <<mode, term, jrnl, ring, sd, snaps, last, from, ghost, count, input>>
  BY DEF CmdSnapshot, Command, SnapTick
<1>2. Good(World', ghost'.cut) /\ SdOK(sd', ghost'.cut)
  BY <1>1, QuietSame DEF IInv
<1>3. SnapsOK' /\ InputOK' /\ mode' \in {"RUN", "OFF"}
  BY <1>1 DEF IInv, InputOK, SnapsOK, NextSnap, Snapshots
<1> QED BY <1>2, <1>3 DEF IInv

\* A line that is no command
LEMMA CmdOtherStep ==
  ASSUME IInv, CmdOther
  PROVE  IInv'
<1>1. /\ cmds # <<>> /\ cmds' = Tail(cmds)
      /\ UNCHANGED <<mode, term, jrnl, ring, sd, trigger, snaps, last, from, ghost, count, input>>
  BY DEF CmdOther, Command
<1>2. Good(World', ghost'.cut) /\ SdOK(sd', ghost'.cut)
  BY <1>1, QuietSame DEF IInv
<1>3. SnapsOK' /\ InputOK' /\ mode' \in {"RUN", "OFF"}
  BY <1>1, SameSnaps DEF IInv, InputOK
<1> QED BY <1>2, <1>3 DEF IInv

\* sd_task_dispatch
LEMMA SdDispatchStep ==
  ASSUME IInv, NEW ok \in BOOLEAN, SdDispatch(ok)
  PROVE  IInv'
<1>1. /\ sd.q # <<>> /\ Faulty(ok) /\ ghost' = [ghost EXCEPT !.cut = @ /\ sd'.op # "NONE"]
      /\ UNCHANGED <<term, cmds, jrnl, ring, trigger, snaps, last, from, input>>
  BY DEF SdDispatch
<1>2. ghost \in Ghost /\ ghost.cut \in BOOLEAN /\ SdOK(sd, ghost.cut) /\ mode \in {"RUN", "OFF"}
  BY StateParts DEF IInv
<1> DEFINE b == ghost.cut /\ sd'.op # "NONE"
<1>3. SdOK(sd', b) /\ mode' \in {"RUN", "OFF"}
  <2>1. CASE Head(sd.q).sig \in {"READ", "TEST"} /\ sd' = sd_task_request(sd, ok) /\ mode' = mode
    <3>1. SdOK(sd_task_request(sd, ok), ghost.cut /\ sd_task_request(sd, ok).op # "NONE")
      BY <1>1, <1>2, <2>1, SdServeKeeps
    <3> QED BY <1>2, <2>1, <3>1
  <2>2. CASE /\ Head(sd.q).sig \in {"DONE", "ERROR"} /\ sd' = sd_task_complete(sd)
             /\ mode' = IF sd.op = "NONE" THEN "PANIC" ELSE mode
    <3>1. /\ sd.op # "NONE" /\ sd_task_complete(sd).op = "NONE" /\ SdOK(sd_task_complete(sd), FALSE)
      BY <1>1, <1>2, <2>2, SdEndKeeps
    <3>2. b = FALSE
      BY <2>2, <3>1
    <3> HIDE DEF b
    <3> QED BY <1>2, <2>2, <3>1, <3>2
  <2> QED BY <2>1, <2>2 DEF SdDispatch
<1>4. b \in BOOLEAN /\ ghost' = WithCut(ghost, b)
  BY <1>1, <1>2, Zenon DEF WithCut
<1> HIDE DEF b
<1>5. ghost' \in Ghost /\ ghost'.cut = b /\ ghost'.skew = ghost.skew
  BY <1>2, <1>4, CutGhost
<1>6. Good(World', ghost'.cut)
  BY <1>1, <1>5, QuietKeeps
<1>7. SnapsOK' /\ InputOK'
  BY <1>1, SameSnaps, FaultyType DEF IInv, InputOK
<1> QED BY <1>3, <1>5, <1>6, <1>7 DEF IInv

\* SDMMC1_IRQHandler
LEMMA SdIrqStep ==
  ASSUME IInv, NEW ok \in BOOLEAN, SdIrq(ok)
  PROVE  IInv'
<1>1. /\ sd.status = "IN_PROGRESS" /\ Faulty(ok)
      /\ sd' = IF ok THEN sd_irq_data_end(sd) ELSE sd_irq_error(sd)
      /\ mode' = IF Len(sd'.q) > SdQueueCap THEN "PANIC" ELSE mode
      /\ UNCHANGED <<term, cmds, jrnl, ring, trigger, snaps, last, from, ghost, input>>
  BY DEF SdIrq
<1>2. ghost.cut \in BOOLEAN /\ SdOK(sd, ghost.cut) /\ mode \in {"RUN", "OFF"}
  BY StateParts DEF IInv
<1>3. SdOK(sd', ghost.cut) /\ Len(sd'.q) <= SdQueueCap
  BY <1>1, <1>2, SdIrqKeeps
<1>4. mode' = mode
  <2>1. sd'.q \in Seq(SdEvent)
    BY <1>3 DEF SdOK, SdState
  <2>2. Len(sd'.q) \in Nat
    BY <2>1
  <2>3. ~(Len(sd'.q) > SdQueueCap)
    BY <1>3, <2>2, SdAssumption
  <2> QED BY <1>1, <2>3
<1>5. Good(World', ghost'.cut)
  BY <1>1, QuietSame
<1>6. SnapsOK' /\ InputOK'
  BY <1>1, SameSnaps, FaultyType DEF IInv, InputOK
<1> QED BY <1>1, <1>2, <1>3, <1>4, <1>5, <1>6 DEF IInv

\* A snapshot that is refused or fails
LEMMA SnapshotFailsStep ==
  ASSUME IInv, SnapshotFails
  PROVE  IInv'
<1>1. /\ trigger' = FALSE /\ sd' = sd_async_init(sd) /\ ghost' = Cut
      /\ UNCHANGED <<mode, term, cmds, jrnl, ring, last, from, input>>
      /\ UNCHANGED <<snaps, count>> \/ (Faulty(FALSE) /\ snaps' = Stored(NextSnap, NoImage))
  BY DEF SnapshotFails
<1>2. Good(World', ghost'.cut) /\ SdOK(sd', ghost'.cut)
  BY <1>1, CutKeeps
<1>3. SnapsOK'
  <2>1. ImageOK(NoImage)
    BY DEF ImageOK
  <2>2. DOMAIN snaps' = 1 .. MaxSnaps /\ \A s \in 1 .. MaxSnaps : ImageOK(snaps'[s])
    BY <1>1, <2>1, StoredOK DEF IInv, SnapsOK
  <2> QED BY <1>1, <2>2 DEF IInv, SnapsOK
<1>4. InputOK' /\ mode' \in {"RUN", "OFF"}
  BY <1>1, FaultyType DEF IInv, InputOK
<1> QED BY <1>2, <1>3, <1>4 DEF IInv


\* The session can be rebuilt from its latest snapshot
LEMMA BasedKeeps ==
  ASSUME NEW w, NEW cut, Good(w, cut), NEW s \in 1 .. MaxSnaps
  PROVE  Good(Based(w, s), cut)
<1>1. w \in Worlds /\ w.ghost \in Ghost /\ w.ghost.cut = cut
  BY GoodParts
<1> DEFINE S == w.ghost.complete \union {s}
           g == WithComplete(w.ghost, S)
<1>2. S \in SUBSET (1 .. MaxSnaps)
  BY <1>1 DEF Ghost
<1>3. Based(w, s) = IF w.jrnl.pending # <<>> \/ w.ghost.skew THEN w ELSE Settled(SetGhost(w, g))
  <2>1. [w EXCEPT !.ghost.complete = @ \union {s}] = SetGhost(w, g)
    BY <1>1 DEF SetGhost, WithComplete, Worlds
  <2> QED BY <2>1, Zenon DEF Based
<1>4. g \in Ghost /\ g.cut = cut /\ g.skew = w.ghost.skew
  BY <1>1, <1>2, GhostParts DEF SameGhost
<1> HIDE DEF g
<1>5. Good(SetGhost(w, g), cut)
  BY <1>4, KeepGhost
<1> QED BY <1>3, <1>5, SettledKeeps

\* A snapshot that is stored
LEMMA SnapshotStep ==
  ASSUME IInv, NEW ok \in BOOLEAN, Snapshot(ok)
  PROVE  IInv'
<1>1. /\ trigger /\ trigger' = FALSE /\ snaps' = Stored(NextSnap, Image) /\ last' = NextSnap
      /\ Faulty(ok) /\ UNCHANGED <<mode, sd, from, input>>
      /\ Become(Based(journal_note_snapshot_seq(World, NextSnap, ok), NextSnap))
  BY DEF Snapshot
<1>2. Good(World, ghost.cut) /\ SnapsOK /\ ImageOK(Image)
  BY ImageIsOK DEF IInv
<1>3. NextSnap \in 1 .. MaxSnaps /\ NextSnap \in 0 .. MaxSnaps
  BY <1>1, <1>2, NextSnapType
<1>4. Good(journal_note_snapshot_seq(World, NextSnap, ok), ghost.cut)
  BY <1>2, <1>3, NoteKeeps
<1>5. Good(Based(journal_note_snapshot_seq(World, NextSnap, ok), NextSnap), ghost.cut)
  BY <1>3, <1>4, BasedKeeps
<1>6. SnapsOK'
  <2>1. DOMAIN snaps' = 1 .. MaxSnaps /\ \A s \in 1 .. MaxSnaps : ImageOK(snaps'[s])
    BY <1>1, <1>2, StoredOK
  <2> QED BY <1>1, <1>2, <1>3, <2>1 DEF SnapsOK
<1>7. InputOK' /\ mode' \in {"RUN", "OFF"} /\ SdOK(sd', ghost.cut)
  BY <1>1, FaultyType DEF IInv, InputOK
<1> QED BY <1>1, <1>5, <1>6, <1>7, BecomeKeeps

\* The line editor is told that the line is idle
LEMMA IdleStep ==
  ASSUME IInv, Idle
  PROVE  IInv'
<1>1. /\ term' = [term EXCEPT !.sh = shell_rx_idle(@)]
      /\ UNCHANGED <<mode, cmds, jrnl, ring, sd, trigger, snaps, last, from, ghost, count, input>>
  BY DEF Idle
<1>2. TermOK(term')
  <2>1. term \in Term /\ ShellOK(term.sh) /\ TermOK(term)
    BY StateParts DEF TermOK
  <2>2. shell_rx_idle(term.sh) = WithEol(term.sh, "NONE")
    BY DEF shell_rx_idle, WithEol
  <2>3. ShellOK(shell_rx_idle(term.sh))
    BY <2>1, <2>2, ShellFlags DEF ShellOK
  <2>4. term' = WithSh(term, shell_rx_idle(term.sh))
    BY <1>1, Zenon DEF WithSh
  <2> QED BY <2>1, <2>3, <2>4, TermParts
<1>3. cmds' \in Seq(Line) /\ Len(cmds') <= Mailbox /\ JrnlOK(jrnl') /\ RingOK(ring')
      /\ ghost' \in Ghost /\ Order(ring', jrnl', ghost'.skew)
  BY <1>1, StateParts DEF JrnlOK
<1>4. Good(World', ghost'.cut)
  BY <1>2, <1>3, GoodNext
<1>5. SnapsOK' /\ InputOK' /\ mode' \in {"RUN", "OFF"} /\ SdOK(sd', ghost'.cut)
  BY <1>1, SameSnaps DEF IInv, InputOK
<1> QED BY <1>4, <1>5 DEF IInv

-----------------------------------------------------------------------------
(* Power losses and starts *)

\* What is in RAM after a loss of power is as good as at the start
LEMMA FreshOK ==
  /\ JrnlOK(JournalOff) /\ ~JournalOff.on
  /\ \A cut \in BOOLEAN : SdOK(SdInit, cut)
<1>1. 0 \in Place /\ 1 \in Number /\ 0 \in 0 .. MaxSnaps /\ PendingCap \in Nat
  BY Sizes DEF Place, Number
<1>2. JournalOff \in Jrnl /\ JournalOff.pending = <<>> /\ ~JournalOff.on
  BY <1>1 DEF JournalOff, Jrnl, Line
<1>3. JrnlOK(JournalOff)
  BY <1>1, <1>2 DEF JrnlOK
<1>4. SdInit \in SdState /\ SdInit.q = <<>> /\ SdInit.op = "NONE" /\ SdInit.status = "IDLE"
  BY SdAssumption DEF SdInit, SdState
<1>5. \A cut \in BOOLEAN : SdOK(SdInit, cut)
  BY <1>4 DEF SdOK, SdQueueOK
<1> QED BY <1>2, <1>3, <1>5

\* The power is lost; the ring, the snapshots and the history variables tell
\* what became of the card
LEMMA OffKeeps ==
  ASSUME IInv, Off, NEW g \in Ghost, ghost' = WithCut(g, FALSE), RingOK(ring'),
         Order(ring', JournalOff, g.skew),
         DOMAIN snaps' = 1 .. MaxSnaps, \A s \in 1 .. MaxSnaps : ImageOK(snaps'[s]),
         last' \in 0 .. MaxSnaps, count' = count \/ Faulty(FALSE), input' = input
  PROVE  IInv'
<1>1. /\ mode' = "OFF" /\ term' = TermInit /\ cmds' = <<>> /\ jrnl' = JournalOff
      /\ sd' = SdInit /\ trigger' = FALSE /\ from' = 0
  BY DEF Off
<1>2. ghost' \in Ghost /\ ghost'.cut = FALSE /\ ghost'.skew = g.skew
  BY CutGhost
<1>3. TermOK(term') /\ JrnlOK(jrnl') /\ SdOK(sd', ghost'.cut)
  BY <1>1, <1>2, TermInitOK, FreshOK
<1>4. cmds' \in Seq(Line) /\ Len(cmds') <= Mailbox
  BY <1>1, Sizes
<1>5. Order(ring', jrnl', ghost'.skew)
  BY <1>1, <1>2
<1>6. Good(World', ghost'.cut)
  BY <1>2, <1>3, <1>4, <1>5, GoodNext
<1>7. SnapsOK'
  <2>1. trigger' \in BOOLEAN /\ ~trigger'
    BY <1>1
  <2>2. from' \in 0 .. MaxSnaps
    BY <1>1, Sizes
  <2> QED BY <2>1, <2>2 DEF SnapsOK
<1>8. count \in [boots : Nat, faults : Nat] /\ input \in Seq(Line)
  BY DEF IInv, InputOK
<1>9. InputOK'
  BY <1>8, FaultyType DEF InputOK
<1> QED BY <1>1, <1>3, <1>6, <1>7, <1>9 DEF IInv

\* A ring that is in order for some head is so when the journal is off
LEMMA OrderOff ==
  ASSUME IInv
  PROVE  Order(ring, JournalOff, ghost.skew)
BY StateParts, FreshOK DEF Order

\* The power is lost between two handlers
LEMMA PowerLossStep ==
  ASSUME IInv, PowerLoss
  PROVE  IInv'
<1>1. /\ Off /\ ghost' = [ghost EXCEPT !.cut = FALSE] /\ UNCHANGED <<ring, snaps, last, count, input>>
  BY DEF PowerLoss
<1>2. ghost \in Ghost /\ ghost' = WithCut(ghost, FALSE) /\ RingOK(ring')
  BY <1>1, StateParts DEF WithCut
<1>3. Order(ring', JournalOff, ghost.skew)
  BY <1>1, OrderOff
<1>4. DOMAIN snaps' = 1 .. MaxSnaps /\ (\A s \in 1 .. MaxSnaps : ImageOK(snaps'[s])) /\ last' \in 0 .. MaxSnaps
  BY <1>1 DEF IInv, SnapsOK
<1> QED BY <1>1, <1>2, <1>3, <1>4, OffKeeps

\* A torn block: the ring is out of order, unless it held nothing else
LEMMA TornAppendStep ==
  ASSUME IInv, TornAppend
  PROVE  IInv'
<1> DEFINE f == Forget(ghost, ring, jrnl.next)
           g == Skewed(f, ring', jrnl, TRUE)
<1>1. /\ Off /\ Faulty(FALSE) /\ ring' = [ring EXCEPT ![jrnl.next] = NoRecord]
      /\ ghost' = [g EXCEPT !.cut = FALSE] /\ UNCHANGED <<snaps, last, input>>
  BY DEF TornAppend
<1>2. ghost \in Ghost /\ ring \in [Place -> Record] /\ RingOK(ring) /\ jrnl \in Jrnl
  BY StateParts
<1>3. f \in Ghost
  BY <1>2, ForgetGhost DEF SameGhost
<1> HIDE DEF f
<1>4. g \in Ghost /\ g.skew = ((f.skew \/ TRUE) /\ ~InOrder(ring', jrnl))
  BY <1>3, SkewedGhost
<1>5. ghost' = WithCut(g, FALSE)
  BY <1>1, Zenon DEF WithCut
<1> HIDE DEF g
<1>6. RingOK(ring')
  <2>1. NoRecord \in Record /\ Len(NoRecord.data) = 0 /\ PendingCap \in Nat
    BY Sizes DEF NoRecord, Record, Number, Line
  <2>2. PICK r \in Record : r = NoRecord
    BY <2>1
  <2>3. jrnl.next \in Place
    BY <1>2 DEF Jrnl
  <2>4. ring' = [ring EXCEPT ![jrnl.next] = r]
    BY <1>1, <2>2
  <2>5. ring' \in [Place -> Record]
    BY <1>2, <2>3, <2>4
  <2>6. \A i \in Place : ring'[i] = IF i = jrnl.next THEN r ELSE ring[i]
    BY <1>2, <2>3, <2>4
  <2>7. ASSUME NEW i \in Place PROVE Len(ring'[i].data) <= PendingCap
    BY <1>2, <2>1, <2>2, <2>6 DEF RingOK
  <2> QED BY <2>5, <2>7 DEF RingOK
<1>7. Order(ring', JournalOff, g.skew)
  <2>1. ASSUME ~g.skew PROVE \E h \in Heads : InOrder(ring', h)
    <3> DEFINE h == [next |-> jrnl.next, seq |-> jrnl.seq]
    <3>1. h \in Heads /\ h.next = jrnl.next /\ h.seq = jrnl.seq
      BY <1>2 DEF Heads, Jrnl
    <3>2. InOrder(ring', jrnl)
      BY <1>4, <2>1
    <3> HIDE DEF h
    <3>3. InOrder(ring', h)
      BY <3>1, <3>2 DEF InOrder, Back
    <3> QED BY <3>1, <3>3
  <2> QED BY <2>1, FreshOK DEF Order
<1>8. DOMAIN snaps' = 1 .. MaxSnaps /\ (\A s \in 1 .. MaxSnaps : ImageOK(snaps'[s])) /\ last' \in 0 .. MaxSnaps
  BY <1>1 DEF IInv, SnapsOK
<1> QED BY <1>1, <1>4, <1>5, <1>6, <1>7, <1>8, OffKeeps

\* The power is lost while a snapshot is committed
LEMMA TornSnapshotStep ==
  ASSUME IInv, NEW table \in BOOLEAN, TornSnapshot(table)
  PROVE  IInv'
<1> DEFINE v == View(term)
           g == IF ghost.skew THEN ghost ELSE WithDurable(WithComplete(ghost, {NextSnap}), v)
<1>1. /\ trigger /\ Off /\ Faulty(FALSE) /\ snaps' = Stored(NextSnap, Image)
      /\ last' = (IF table THEN NextSnap ELSE last) /\ UNCHANGED <<ring, input>>
  BY DEF TornSnapshot
<1>2. ghost \in Ghost /\ RingOK(ring) /\ v \in TermView
  BY StateParts, ViewType
<1>3. SnapsOK /\ ImageOK(Image)
  BY ImageIsOK DEF IInv
<1>4. NextSnap \in 1 .. MaxSnaps
  BY <1>1, <1>3, NextSnapType
<1>5. ghost' = WithCut(g, FALSE)
  <2>1. ghost' = IF ghost.skew THEN [ghost EXCEPT !.cut = FALSE]
                 ELSE [ghost EXCEPT !.cut = FALSE, !.complete = {NextSnap}, !.durable = v]
    BY Zenon DEF TornSnapshot
  <2> HIDE DEF v
  <2>2. [ghost EXCEPT !.cut = FALSE, !.complete = {NextSnap}, !.durable = v]
          = WithCut(WithDurable(WithComplete(ghost, {NextSnap}), v), FALSE)
    BY <1>2 DEF WithCut, WithDurable, WithComplete, Ghost
  <2> QED BY <2>1, <2>2 DEF WithCut
<1>6. g \in Ghost /\ g.skew = ghost.skew
  <2>1. {NextSnap} \in SUBSET (1 .. MaxSnaps)
    BY <1>4
  <2>2. WithComplete(ghost, {NextSnap}) \in Ghost /\ WithComplete(ghost, {NextSnap}).skew = ghost.skew
    BY <1>2, <2>1, GhostParts DEF SameGhost
  <2> HIDE DEF v
  <2>3. /\ WithDurable(WithComplete(ghost, {NextSnap}), v) \in Ghost
        /\ WithDurable(WithComplete(ghost, {NextSnap}), v).skew = ghost.skew
    BY <1>2, <2>2, GhostParts DEF SameGhost
  <2> QED BY <1>2, <2>3
<1> HIDE DEF g
<1>7. RingOK(ring') /\ Order(ring', JournalOff, g.skew)
  BY <1>1, <1>2, <1>6, OrderOff
<1>8. DOMAIN snaps' = 1 .. MaxSnaps /\ (\A s \in 1 .. MaxSnaps : ImageOK(snaps'[s])) /\ last' \in 0 .. MaxSnaps
  BY <1>1, <1>3, <1>4, StoredOK DEF SnapsOK
<1> QED BY <1>1, <1>5, <1>6, <1>7, <1>8, OffKeeps


\* The head of a journal
HeadAt(j) == [next |-> j.next, seq |-> j.seq]

\* What is said of the ring depends on the journal's place and number only
LEMMA HeadOf ==
  ASSUME NEW j \in Jrnl, NEW rg
  PROVE  /\ HeadAt(j) \in Heads /\ HeadAt(j).next = j.next /\ HeadAt(j).seq = j.seq
         /\ InOrder(rg, HeadAt(j)) = InOrder(rg, j)
<1>1. HeadAt(j) \in Heads /\ HeadAt(j).next = j.next /\ HeadAt(j).seq = j.seq
  BY DEF HeadAt, Heads, Jrnl
<1>2. InOrder(rg, HeadAt(j)) = InOrder(rg, j)
  BY <1>1, Zenon DEF InOrder, Back
<1> QED BY <1>1, <1>2

\* The journal that is configured has its type
LEMMA ConfigureType ==
  ASSUME NEW rg \in [Place -> Record], NEW s \in 0 .. MaxSnaps, NEW n \in 0 .. Blocks
  PROVE  /\ journal_configure(rg, s, n) \in Jrnl /\ JrnlOK(journal_configure(rg, s, n))
         /\ s # 0 => /\ journal_configure(rg, s, n).next = jrnl_scan_tail(rg, n).next
                     /\ journal_configure(rg, s, n).seq = jrnl_scan_tail(rg, n).seq
<1> DEFINE tail == IF s = 0 THEN [next |-> 0, seq |-> 1] ELSE jrnl_scan_tail(rg, n)
           j == journal_configure(rg, s, n)
<1>1. tail \in Heads
  <2>1. 0 \in Place /\ 1 \in Number
    BY Sizes DEF Place, Number
  <2>2. [next |-> 0, seq |-> 1] \in Heads
    BY <2>1 DEF Heads
  <2> QED BY <2>2, ScanType
<1>2. s # 0 => tail = jrnl_scan_tail(rg, n)
  OBVIOUS
<1>3. j = [on |-> TRUE, pending |-> <<>>, next |-> tail.next, seq |-> tail.seq,
           base |-> s, suppress |-> 0]
  BY Zenon DEF journal_configure
<1> HIDE DEF tail, j
<1>4. j \in Jrnl /\ j.pending = <<>> /\ j.next = tail.next /\ j.seq = tail.seq
  BY <1>1, <1>3 DEF Heads, Jrnl, Line
<1>5. JrnlOK(j)
  BY <1>4, Sizes DEF JrnlOK
<1> QED BY <1>2, <1>4, <1>5 DEF j

\* A session that starts goes on where the one before stopped, unless an event
\* has left the ring out of order
LEMMA ConfigureOrder ==
  ASSUME NEW rg \in [Place -> Record], NEW s \in 0 .. MaxSnaps, NEW n \in 0 .. Blocks,
         NEW g \in Ghost, NEW e \in BOOLEAN, s = 0 \/ n < Blocks => e,
         Order(rg, JournalOff, g.skew)
  PROVE  Order(rg, journal_configure(rg, s, n), Skewed(g, rg, journal_configure(rg, s, n), e).skew)
<1> DEFINE j == journal_configure(rg, s, n)
<1>1. j \in Jrnl /\ (s # 0 => j.next = jrnl_scan_tail(rg, n).next /\ j.seq = jrnl_scan_tail(rg, n).seq)
  BY ConfigureType
<1> HIDE DEF j
<1>2. Skewed(g, rg, j, e).skew = ((g.skew \/ e) /\ ~InOrder(rg, j))
  BY SkewedGhost
<1>3. ASSUME ~Skewed(g, rg, j, e).skew PROVE InOrder(rg, j)
  <2>1. CASE g.skew \/ e
    BY <1>2, <1>3, <2>1
  <2>2. CASE ~(g.skew \/ e)
    <3>1. s # 0 /\ n = Blocks
      BY <2>2, Sizes
    <3>2. PICK h \in Heads : InOrder(rg, h)
      BY <2>2 DEF Order
    <3>3. InOrder(rg, jrnl_scan_tail(rg, n))
      BY <3>1, <3>2, ScanOrder
    <3> QED BY <1>1, <3>1, <3>3, Zenon DEF InOrder, Back
  <2> QED BY <2>1, <2>2
<1>4. /\ HeadAt(j) \in Heads /\ HeadAt(j).next = j.next /\ HeadAt(j).seq = j.seq
      /\ InOrder(rg, HeadAt(j)) = InOrder(rg, j)
  BY <1>1, HeadOf
<1>5. Order(rg, j, Skewed(g, rg, j, e).skew)
  BY <1>3, <1>4 DEF Order
<1> QED BY <1>5 DEF j

\* main_cold_boot configures the journal
LEMMA ColdBootStep ==
  ASSUME IInv, NEW n \in 0 .. Blocks, NEW disk \in BOOLEAN, ColdBoot(n, disk)
  PROVE  IInv'
<1> DEFINE j == journal_configure(ring, last, n)
           e == last = 0 \/ n < Blocks
           ok == n = Blocks /\ disk
<1>1. /\ mode' = "RUN" /\ jrnl' = (IF disk THEN j ELSE JournalOff)
      /\ ghost' = (IF disk THEN Skewed(Lose(ghost), ring, jrnl', e) ELSE Lose(ghost))
      /\ count' = [count EXCEPT !.boots = @ + 1, !.faults = IF ok THEN @ ELSE @ + 1]
      /\ UNCHANGED <<term, cmds, ring, sd, trigger, snaps, last, from, input>>
  BY Zenon DEF ColdBoot
<1>2. /\ ghost \in Ghost /\ ghost.cut \in BOOLEAN /\ ring \in [Place -> Record] /\ RingOK(ring)
      /\ TermOK(term) /\ cmds \in Seq(Line) /\ Len(cmds) <= Mailbox /\ last \in 0 .. MaxSnaps
      /\ Order(ring, JournalOff, ghost.skew) /\ SdOK(sd, ghost.cut)
      /\ count \in [boots : Nat, faults : Nat] /\ input \in Seq(Line) /\ SnapsOK
  BY StateParts, OrderOff DEF IInv, SnapsOK, InputOK
<1>3. Lose(ghost) \in Ghost /\ Lose(ghost).cut = ghost.cut /\ Lose(ghost).skew = ghost.skew
  BY <1>2, GhostParts DEF SameGhost
<1>4. e \in BOOLEAN /\ (last = 0 \/ n < Blocks => e)
  OBVIOUS
<1>5. JrnlOK(j)
  BY <1>2, ConfigureType
<1>6. Order(ring, j, Skewed(Lose(ghost), ring, j, e).skew)
  <2>1. Order(ring, JournalOff, Lose(ghost).skew)
    BY <1>2, <1>3
  <2> HIDE DEF e
  <2> QED BY <1>2, <1>3, <1>4, <2>1, ConfigureOrder
<1> HIDE DEF j, e
<1>7. Skewed(Lose(ghost), ring, j, e) \in Ghost /\ Skewed(Lose(ghost), ring, j, e).cut = ghost.cut
  BY <1>3, <1>4, SkewedGhost
<1>8. ghost' \in Ghost /\ ghost'.cut = ghost.cut /\ JrnlOK(jrnl') /\ Order(ring, jrnl', ghost'.skew)
  <2>1. CASE disk
    <3>1. jrnl' = j /\ ghost' = Skewed(Lose(ghost), ring, j, e)
      BY <1>1, <2>1
    <3> QED BY <1>5, <1>6, <1>7, <3>1
  <2>2. CASE ~disk
    <3>1. jrnl' = JournalOff /\ ghost' = Lose(ghost)
      BY <1>1, <2>2
    <3> QED BY <1>2, <1>3, <3>1, FreshOK
  <2> QED BY <2>1, <2>2
<1>9. Good(World', ghost'.cut)
  <2>1. TermOK(term') /\ cmds' \in Seq(Line) /\ Len(cmds') <= Mailbox /\ RingOK(ring')
        /\ Order(ring', jrnl', ghost'.skew)
    BY <1>1, <1>2, <1>8
  <2> QED BY <1>8, <2>1, GoodNext
<1>10. SnapsOK'
  BY <1>1, <1>2, SameSnaps
<1>11. InputOK'
  <2>1. PICK b \in Nat, f \in Nat : b = count.boots /\ f = count.faults
    BY <1>2
  <2>2. count' = [boots |-> b + 1, faults |-> IF ok THEN f ELSE f + 1]
    BY <1>1, <1>2, <2>1
  <2> HIDE DEF ok
  <2>3. (IF ok THEN f ELSE f + 1) \in Nat /\ b + 1 \in Nat
    OBVIOUS
  <2>4. count' \in [boots : Nat, faults : Nat]
    BY <2>2, <2>3
  <2> QED BY <1>1, <1>2, <2>4 DEF InputOK
<1>12. SdOK(sd', ghost'.cut)
  BY <1>1, <1>2, <1>8
<1> QED BY <1>1, <1>9, <1>10, <1>11, <1>12 DEF IInv


\* The state from which a replay starts: the image, with empty queues
LEMMA ResumeStart ==
  ASSUME IInv, NEW s \in Snapshots, NEW scan \in 0 .. Blocks
  PROVE  /\ snaps[s].op \in SdOps
         /\ LET w == [term |-> [snaps[s].term EXCEPT !.quit = FALSE], cmds |-> <<>>,
                      jrnl |-> journal_configure(ring, s, scan), ring |-> ring, ghost |-> ghost]
            IN  Tame(w, w, ghost.cut)
<1>1. s \in 1 .. MaxSnaps /\ snaps[s] # NoImage /\ s \in 0 .. MaxSnaps
  BY Sizes DEF Snapshots
<1>2. snaps[s] \in Images /\ TermOK(snaps[s].term)
  BY <1>1 DEF IInv, SnapsOK, ImageOK
<1>3. snaps[s].op \in SdOps
  BY <1>2 DEF Images
<1>4. PICK t \in Term : t = [snaps[s].term EXCEPT !.quit = FALSE] /\ TermOK(t)
  <2>1. TermOK([snaps[s].term EXCEPT !.quit = FALSE])
    BY <1>2, TermParts
  <2> QED BY <2>1, Zenon DEF TermOK
<1>5. PICK j \in Jrnl : j = journal_configure(ring, s, scan) /\ JrnlOK(j)
  BY <1>1, StateParts, ConfigureType
<1> DEFINE w == [term |-> t, cmds |-> <<>>, jrnl |-> j, ring |-> ring, ghost |-> ghost]
<1>6. /\ w.term = t /\ w.cmds = <<>> /\ w.jrnl = j /\ w.ring = ring /\ w.ghost = ghost
      /\ w \in Worlds
  <2>1. ring \in [Place -> Record] /\ ghost \in Ghost
    BY StateParts
  <2> QED BY <2>1 DEF Worlds
<1> HIDE DEF w
<1>7. Len(w.cmds) <= Mailbox
  BY <1>6, Sizes
<1>8. WorldOK(w, ghost.cut)
  BY <1>4, <1>5, <1>6, <1>7, StateParts DEF WorldOK
<1>9. Tame(w, w, ghost.cut)
  BY <1>8 DEF Tame, SameHead
<1> QED BY <1>3, <1>4, <1>5, <1>9 DEF w

\* The state that a replay reaches is as good as the one it starts from, with
\* the history variables g
LEMMA TameGood ==
  ASSUME NEW v, NEW w, NEW cut, Tame(v, w, cut), NEW g \in Ghost, Order(w.ring, w.jrnl, g.skew)
  PROVE  Good(SetGhost(v, g), g.cut)
<1>1. /\ v \in Worlds /\ TermOK(v.term) /\ Len(v.cmds) <= Mailbox
      /\ v.ring = w.ring /\ RingOK(v.ring) /\ SameHead(v.jrnl, w.jrnl) /\ JrnlOK(v.jrnl)
  BY TameParts DEF JrnlOK
<1>2. /\ SetGhost(v, g) \in Worlds /\ SetGhost(v, g).ghost = g
      /\ SetGhost(v, g).term = v.term /\ SetGhost(v, g).cmds = v.cmds
      /\ SetGhost(v, g).jrnl = v.jrnl /\ SetGhost(v, g).ring = v.ring
  BY <1>1, SetParts
<1>3. Order(v.ring, v.jrnl, g.skew)
  BY <1>1 DEF Order, SameHead
<1> QED BY <1>1, <1>2, <1>3 DEF Good, WorldOK, WorldOrder

\* rewind_resume_entry restores an image and replays the journal
LEMMA ResumeStep ==
  ASSUME IInv, NEW s \in 1 .. MaxSnaps, NEW scan \in 0 .. Blocks, NEW read \in 0 .. Blocks,
         NEW k \in 0 .. 1, Resume(s, scan, read, k)
  PROVE  IInv'
<1> DEFINE ok == scan = Blocks /\ read = Blocks
           late == IF k = 0 THEN <<>> ELSE Head(input)
           j == journal_configure(ring, s, scan)
           recs == ReplayRecords(j, read)
           w == [term |-> [snaps[s].term EXCEPT !.quit = FALSE], cmds |-> <<>>,
                 jrnl |-> j, ring |-> ring, ghost |-> ghost]
           r == journal_replay_from_snapshot(w, recs, s, late)
           older == {t \in ghost.complete : t < s /\ s \in ghost.complete}
           cut == snaps[s].op # "NONE"
           compl == IF ok /\ late = <<>> THEN older \union {s} ELSE {}
           g == [Lose(ghost) EXCEPT !.cut = cut, !.complete = compl]
           e == scan < Blocks
           G == Skewed(g, ring, j, e)
<1>1. /\ s \in Snapshots /\ mode' = "RUN" /\ from' = s
      /\ k <= Len(input) /\ input' = SubSeq(input, k + 1, Len(input))
      /\ count' = [boots |-> count.boots + 1, faults |-> count.faults + (IF ok THEN 0 ELSE 1)]
      /\ Become(Settled([r EXCEPT !.ghost = G]))
      /\ sd' = [SdInit EXCEPT !.op = snaps[s].op]
      /\ UNCHANGED <<trigger, snaps, last>>
  BY Zenon DEF Resume
<1>2. /\ input \in Seq(Line) /\ count \in [boots : Nat, faults : Nat] /\ SnapsOK
      /\ ghost \in Ghost /\ ring \in [Place -> Record] /\ Order(ring, JournalOff, ghost.skew)
  BY StateParts, OrderOff DEF IInv, InputOK
<1>3. late \in Line /\ input' \in Seq(Line)
  <2>1. k = 0 => late \in Line
    BY DEF Line
  <2>2. k # 0 => input # <<>>
    BY <1>1, <1>2
  <2>3. input # <<>> => Head(input) \in Line
    BY <1>2
  <2>4. input' \in Seq(Line)
    <3>1. \A S : \A q \in Seq(S) : \A i \in 0 .. 1 : SubSeq(q, i + 1, Len(q)) \in Seq(S)
      OBVIOUS
    <3> QED BY <1>1, <1>2, <3>1
  <2> QED BY <2>1, <2>2, <2>3, <2>4
<1>4. Tame(w, w, ghost.cut) /\ snaps[s].op \in SdOps
  BY <1>1, ResumeStart
<1>5. w.jrnl = j /\ w.ring = ring
  OBVIOUS
<1>6. recs \in Seq(Record) /\ \A i \in 1 .. Len(recs) : recs[i].kind # "NONE"
  <2>1. j \in Jrnl
    BY <1>2, Sizes, ConfigureType
  <2>2. read \in Nat
    BY Sizes
  <2> HIDE DEF j
  <2>3. HeadAt(j) \in Heads /\ HeadAt(j).next = j.next
    BY <2>1, HeadOf
  <2>4. ReplayRecords(j, read) = ReplayRecords(HeadAt(j), read)
    BY <2>3, Zenon DEF ReplayRecords
  <2> QED BY <1>2, <2>2, <2>3, <2>4, ReplayType
<1> HIDE DEF recs, late
<1>7. Tame(r, w, ghost.cut)
  <2> HIDE DEF w
  <2> QED BY <1>3, <1>4, <1>6, TameReplay
<1>8. g \in Ghost /\ g.cut = cut /\ g.skew = ghost.skew
  <2>1. Lose(ghost) \in Ghost /\ Lose(ghost).skew = ghost.skew
    BY <1>2, GhostParts DEF SameGhost
  <2>2. compl \in SUBSET (1 .. MaxSnaps)
    BY <1>2 DEF Ghost
  <2>3. cut \in BOOLEAN
    OBVIOUS
  <2>4. PICK l \in Ghost : l = Lose(ghost)
    BY <2>1
  <2> HIDE DEF compl, cut
  <2>5. g = [l EXCEPT !.cut = cut, !.complete = compl]
    BY <2>4
  <2> QED BY <2>1, <2>2, <2>3, <2>4, <2>5 DEF Ghost
<1> HIDE DEF g, r
<1>9. G \in Ghost /\ G.cut = cut
  <2>1. e \in BOOLEAN
    OBVIOUS
  <2> HIDE DEF e
  <2> QED BY <1>8, <2>1, SkewedGhost
<1>10. Order(ring, j, G.skew)
  <2>1. s \in 0 .. MaxSnaps /\ e \in BOOLEAN /\ (s = 0 \/ scan < Blocks => e)
    BY Sizes
  <2>2. Order(ring, JournalOff, g.skew)
    BY <1>2, <1>8
  <2> HIDE DEF e
  <2> QED BY <1>2, <1>8, <2>1, <2>2, ConfigureOrder
<1> HIDE DEF G, w, j
<1>11. Good(SetGhost(r, G), G.cut)
  BY <1>5, <1>7, <1>9, <1>10, TameGood
<1> DEFINE z == Settled(SetGhost(r, G))
<1>12. Good(z, cut) /\ Become(z)
  <2>1. [r EXCEPT !.ghost = G] = SetGhost(r, G)
    BY Zenon DEF SetGhost
  <2> QED BY <1>1, <1>9, <1>11, <2>1, SettledKeeps
<1> HIDE DEF z
<1>13. World' = z /\ ghost' = z.ghost /\ z.ghost.cut = cut
  BY <1>12, GoodParts, WorldIs DEF Become
<1>14. SdOK(sd', cut)
  <2>1. sd' \in SdState /\ sd'.q = <<>> /\ sd'.status = "IDLE" /\ sd'.op = snaps[s].op
    <3>1. PICK i \in SdState : i = SdInit /\ i.q = <<>> /\ i.status = "IDLE"
      <4>1. SdInit \in SdState /\ SdInit.q = <<>> /\ SdInit.status = "IDLE"
        BY SdAssumption DEF SdInit, SdState
      <4> QED BY <4>1, Zenon
    <3>2. sd' = [i EXCEPT !.op = snaps[s].op]
      BY <1>1, <3>1
    <3> QED BY <1>4, <3>1, <3>2 DEF SdState, SdOps
  <2>2. sd'.op = "NONE" \/ cut
    BY <2>1
  <2> HIDE DEF cut
  <2> QED BY <2>1, <2>2 DEF SdOK, SdQueueOK
<1> HIDE DEF cut
<1>15. Good(World', ghost'.cut) /\ SdOK(sd', ghost'.cut)
  BY <1>12, <1>13, <1>14
<1>16. SnapsOK'
  BY <1>1, <1>2, Sizes DEF SnapsOK, NextSnap, Snapshots
<1>17. InputOK'
  <2>1. PICK b \in Nat, f \in Nat : b = count.boots /\ f = count.faults
    BY <1>2
  <2>2. count' = [boots |-> b + 1, faults |-> f + (IF ok THEN 0 ELSE 1)]
    BY <1>1, <2>1
  <2> HIDE DEF ok
  <2>3. f + (IF ok THEN 0 ELSE 1) \in Nat /\ b + 1 \in Nat
    OBVIOUS
  <2>4. count' \in [boots : Nat, faults : Nat]
    BY <2>2, <2>3
  <2> QED BY <1>3, <2>4 DEF InputOK
<1> QED BY <1>1, <1>15, <1>16, <1>17 DEF IInv

-----------------------------------------------------------------------------
(* The theorems *)

\* The first start, with an empty card
LEMMA InitInv == Init => IInv
<1> SUFFICES ASSUME Init PROVE IInv
  OBVIOUS
<1>1. /\ mode = "RUN" /\ term = TermInit /\ cmds = <<>>
      /\ ring = [i \in 0 .. Blocks - 1 |-> NoRecord] /\ jrnl = journal_configure(ring, 0, Blocks)
      /\ sd = SdInit /\ trigger = FALSE
      /\ snaps = [s \in 1 .. MaxSnaps |-> NoImage] /\ last = 0 /\ from = 0
      /\ ghost = [complete |-> {}, durable |-> View(TermInit), skew |-> FALSE, cut |-> FALSE]
      /\ input \in Inputs /\ count = [boots |-> 0, faults |-> 0]
  BY DEF Init
<1>2. PICK r \in Record : r = NoRecord /\ Len(r.data) = 0 /\ r.kind = "NONE"
  <2>1. 0 \in Number /\ 0 \in 0 .. MaxSnaps
    BY Sizes DEF Number
  <2>2. NoRecord \in Record /\ Len(NoRecord.data) = 0 /\ NoRecord.kind = "NONE"
    BY <2>1 DEF NoRecord, Record, Line
  <2> QED BY <2>2, Zenon
<1>3. ring \in [Place -> Record] /\ \A i \in Place : ring[i] = r
  BY <1>1, <1>2 DEF Place
<1>4. RingOK(ring)
  BY <1>2, <1>3, Sizes DEF RingOK
<1>5. jrnl \in Jrnl /\ JrnlOK(jrnl)
  BY <1>1, <1>3, ConfigureType, Sizes
<1>6. jrnl.next = 0 /\ jrnl.seq = 1
  BY <1>1 DEF journal_configure
<1>7. InOrder(ring, jrnl)
  <2>1. \A i \in 1 .. Blocks : Back(jrnl, i) \in Place
    BY <1>6, Sizes DEF Back, Place
  <2>2. \A i \in 1 .. Blocks : ~Valid(ring, Back(jrnl, i))
    BY <1>2, <1>3, <2>1 DEF Valid
  <2>3. \A i \in 1 .. 0 : Valid(ring, Back(jrnl, i)) /\ ring[Back(jrnl, i)].seq = (jrnl.seq - i) % SeqWrap
    OBVIOUS
  <2> QED BY <1>6, <2>2, <2>3 DEF InOrder
<1>8. View(TermInit) \in TermView
  BY TermInitOK, ViewType
<1>9. ghost \in Ghost /\ ghost.skew = FALSE /\ ghost.cut = FALSE
  <2> DEFINE v == View(TermInit)
  <2> HIDE DEF v
  <2>1. ghost = [complete |-> {}, durable |-> v, skew |-> FALSE, cut |-> FALSE] /\ v \in TermView
    BY <1>1, <1>8 DEF v
  <2> QED BY <2>1 DEF Ghost
<1>10. Order(ring, jrnl, ghost.skew)
  BY <1>5, <1>7, HeadOf DEF Order
<1>11. Good(World, ghost.cut)
  <2>1. World.term = term /\ World.cmds = cmds /\ World.jrnl = jrnl /\ World.ring = ring /\ World.ghost = ghost
    BY WorldParts
  <2>2. TermOK(term) /\ term \in Term /\ cmds \in Seq(Line) /\ Len(cmds) <= Mailbox
    BY <1>1, TermInitOK, Sizes DEF TermOK
  <2>3. World \in Worlds
    BY <1>3, <1>5, <1>9, <2>2 DEF World, Worlds
  <2> QED BY <1>4, <1>5, <1>10, <2>1, <2>2, <2>3 DEF Good, WorldOK, WorldOrder
<1>12. SdOK(sd, ghost.cut)
  BY <1>1, <1>9, FreshOK
<1>13. SnapsOK
  <2>1. \A s \in 1 .. MaxSnaps : ImageOK(snaps[s])
    BY <1>1 DEF ImageOK
  <2>2. trigger \in BOOLEAN /\ ~trigger
    BY <1>1
  <2>3. DOMAIN snaps = 1 .. MaxSnaps /\ last \in 0 .. MaxSnaps /\ from \in 0 .. MaxSnaps
    BY <1>1, Sizes
  <2> QED BY <2>1, <2>2, <2>3 DEF SnapsOK
<1>14. InputOK
  <2>1. input \in Seq(Seq(STRING))
    BY <1>1, JournalAssumption
  <2>2. \A S, T : S \subseteq T => Seq(S) \subseteq Seq(T)
    OBVIOUS
  <2>3. STRING \subseteq Char
    BY DEF Char
  <2>4. Seq(STRING) \subseteq Line
    BY <2>2, <2>3, Zenon DEF Line
  <2>5. Seq(Seq(STRING)) \subseteq Seq(Line)
    BY <2>2, <2>4, Zenon
  <2> QED BY <1>1, <2>1, <2>5 DEF InputOK
<1> QED BY <1>1, <1>11, <1>12, <1>13, <1>14 DEF IInv

\* Every step keeps the invariant
LEMMA Inductive == IInv /\ [Next]_vars => IInv'
<1> SUFFICES ASSUME IInv, [Next]_vars PROVE IInv'
  OBVIOUS
<1>1. CASE UNCHANGED vars
  <2>1. UNCHANGED <<mode, term, cmds, jrnl, ring, sd, trigger, snaps, last, from, ghost, input, count>>
    BY <1>1 DEF vars
  <2>2. Good(World', ghost'.cut) /\ SdOK(sd', ghost'.cut)
    BY <2>1, QuietSame DEF IInv
  <2>3. SnapsOK' /\ InputOK' /\ mode' \in {"RUN", "OFF"}
    BY <2>1, SameSnaps DEF IInv, InputOK
  <2> QED BY <2>2, <2>3 DEF IInv
<1>2. CASE Next
  <2>1. ASSUME NEW ok \in BOOLEAN,
               Input(ok) \/ GameStop(ok) \/ CmdGame(ok) \/ SdDispatch(ok) \/ SdIrq(ok) \/ Snapshot(ok)
        PROVE  IInv'
    BY <2>1, InputStep, GameStopStep, CmdGameStep, SdDispatchStep, SdIrqStep, SnapshotStep
  <2>2. ASSUME NEW kind \in {"READ", "TEST"}, NEW blocks \in 1 .. MaxBlocks, CmdRead(kind, blocks)
        PROVE  IInv'
    BY <2>2, CmdReadStep
  <2>3. CASE CmdSdInit \/ CmdSnapshot \/ CmdOther \/ Idle \/ SnapTick \/ SnapshotFails \/ PowerLoss \/ TornAppend
    BY <2>3, CmdSdInitStep, CmdSnapshotStep, CmdOtherStep, IdleStep, SnapshotFailsStep,
       PowerLossStep, TornAppendStep
  <2>4. ASSUME NEW table \in BOOLEAN, TornSnapshot(table) PROVE IInv'
    BY <2>4, TornSnapshotStep
  <2>5. ASSUME NEW n \in 0 .. Blocks, NEW disk \in BOOLEAN, ColdBoot(n, disk) PROVE IInv'
    BY <2>5, ColdBootStep
  <2>6. ASSUME NEW s \in 1 .. MaxSnaps, NEW scan \in 0 .. Blocks, NEW read \in 0 .. Blocks,
               NEW k \in 0 .. 1, Resume(s, scan, read, k)
        PROVE  IInv'
    BY <2>6, ResumeStep
  <2> QED BY <1>2, <2>1, <2>2, <2>3, <2>4, <2>5, <2>6 DEF Next
<1> QED BY <1>1, <1>2

\* The invariant holds in every reachable state
LEMMA AlwaysIInv == Spec => []IInv
BY InitInv, Inductive, PTL DEF Spec

\* The invariant gives the types and bounds, and the order of the ring
LEMMA InvRings == IInv => RingsSound
<1> SUFFICES ASSUME IInv PROVE RingsSound
  OBVIOUS
<1>1. /\ TermOK(term) /\ Len(cmds) <= Mailbox /\ jrnl \in Jrnl /\ Len(jrnl.pending) <= PendingCap
      /\ RingOK(ring) /\ ghost \in Ghost /\ Order(ring, jrnl, ghost.skew)
  BY StateParts
<1>2. TypeOK
  <2>1. sd \in SdState /\ mode \in {"RUN", "OFF", "PANIC"}
    BY DEF IInv, SdOK
  <2>2. trigger \in BOOLEAN /\ last \in 0 .. MaxSnaps /\ from \in 0 .. MaxSnaps
    BY DEF IInv, SnapsOK
  <2>3. /\ jrnl.on \in BOOLEAN /\ jrnl.next \in 0 .. Blocks - 1 /\ jrnl.seq \in 0 .. SeqWrap - 1
        /\ jrnl.base \in 0 .. MaxSnaps /\ jrnl.suppress \in Nat
    BY <1>1 DEF Jrnl, Place, Number
  <2>4. ASSUME NEW i \in 0 .. Blocks - 1
        PROVE  /\ ring[i].kind \in {"NONE", "RX", "OWNER"} /\ ring[i].seq \in 0 .. SeqWrap - 1
               /\ Len(ring[i].data) <= PendingCap
    BY <1>1 DEF RingOK, Record, Place, Number
  <2>5. ghost.complete \subseteq 1 .. MaxSnaps
    BY <1>1 DEF Ghost
  <2> QED BY <1>1, <2>1, <2>2, <2>3, <2>4, <2>5 DEF TypeOK
<1>3. HistoryInBounds
  BY <1>1 DEF HistoryInBounds, TermOK, ShellOK, Shell
<1>4. RingInOrder
  <2>1. ASSUME jrnl.on, ~ghost.skew PROVE InOrder(ring, jrnl)
    <3>1. PICK h \in Heads : InOrder(ring, h) /\ h.next = jrnl.next /\ h.seq = jrnl.seq
      BY <1>1, <2>1 DEF Order
    <3> QED BY <3>1, Zenon DEF InOrder, Back
  <2> QED BY <2>1 DEF RingInOrder
<1> QED BY <1>2, <1>3, <1>4 DEF RingsSound

\* The invariant gives what is said of the SD task
LEMMA InvSd == IInv => SdSound
<1> SUFFICES ASSUME IInv PROVE SdSound
  OBVIOUS
<1>1. NoPanic
  BY DEF IInv, NoPanic
<1>2. BusyMeansInFlight
  BY DEF IInv, SdOK, BusyMeansInFlight, IsEnd
<1> QED BY <1>1, <1>2 DEF SdSound

\* Whatever is typed and replayed, whatever the card refuses, tears or cannot
\* read, and over the wraps of the ring and of the record numbers: the buffer of
\* pending bytes, the head of the ring and the place in the history stay in
\* their bounds, and the head that jrnl_scan_tail finds at a start is the one
\* where the session before stopped (journal.c)
THEOREM RingStaysInOrder == Spec => []RingsSound
BY AlwaysIInv, InvRings, PTL

\* The interrupt handler never finds the queue of the SD task full, the task is
\* never told of a transfer it did not start, and unless a transfer was cut off
\* the task is busy only while one is under way (sd_task.c, sd_async.c)
THEOREM SdNeverStuck == Spec => []SdSound
BY AlwaysIInv, InvSd, PTL

=============================================================================
