-------------------------- MODULE AllocatorProofs --------------------------
(***************************************************************************)
(* Theorems about the page allocator.  The types, and that a caller finds  *)
(* its own id again, hold wherever between two steps of a request the      *)
(* alarm falls.  The properties of accounts, blocks and owners are proved  *)
(* for an alarm that stays out of requests (~AlarmAnywhere), as they are   *)
(* checked: with it, two threads may find the same page free.              *)
(*                                                                         *)
(* The invariant describes the pages of the threads from SYSPAGES up to a  *)
(* page b: every one has an owner, the pages of a thread t follow each     *)
(* other from home[t] to end[t], and its chain of chunks climbs from the   *)
(* header of home[t] to the header top[t].                                 *)
(*   Good:    the pages from b on are as they were at the beginning.       *)
(*   Spoilt:  the chain of a thread has led to the header of the page b,   *)
(*            which is the lowest such page.  Below it all is as before,   *)
(*            and nothing is said of what is above.                        *)
(* The properties are promised in good states only; but a spoilt state     *)
(* must be known to stay one, or to end with an overdrawn account: a link  *)
(* to the header of a page is never unmade, and neither is a deficit.      *)
(***************************************************************************)
EXTENDS Allocator, Induction

-----------------------------------------------------------------------------
(* The inductive invariant. *)

IsPageAddr(h) == \E p \in Page : h = Addr(p)

\* The headers of the chain of chunks that begins at the page p, up to last.
ChunksOf(m, p, last) ==
  {h \in DOMAIN m.next : /\ Addr(p) <= h /\ h <= last
                         /\ h = Addr(p) \/ ~IsPageAddr(h)}

\* The chain leads from the page p to the header last ...
LeadsTo(m, p, last) ==
  /\ last \in ChunksOf(m, p, last)
  /\ \A h \in ChunksOf(m, p, last) \ {last} :
       h \notin m.free /\ m.next[h] \in ChunksOf(m, p, last)

\* ... and every chain leads upwards.
Climbs(m) == \A h \in DOMAIN m.next : m.next[h] # NoNext => h < m.next[h]

\* What follows is said of the pages of the threads below the page b: a
\* thread with pages there has those from home to end, and its chain leads
\* from home to top.
Live(b, home, end, t) == home[t] < end[t] /\ home[t] < b

Runs(m, b, home, end) ==
  /\ \A p \in SYSPAGES .. b - 1 :
       /\ m.owner[p] \in Thread
       /\ home[m.owner[p]] <= p /\ p < end[m.owner[p]]
       /\ Addr(p) \notin m.free
  /\ \A t \in Thread, p \in SYSPAGES .. b - 1 :
       home[t] <= p /\ p < end[t] => m.owner[p] = t

Chains(m, b, home, end, top) ==
  /\ \A t \in Thread : Live(b, home, end, t) =>
       LeadsTo(m, home[t], top[t]) /\ top[t] < Addr(end[t]) /\ top[t] < Addr(b)
  /\ \A t \in Thread : Live(b, home, end, t) /\ end[t] <= b =>
       /\ m.next[top[t]] = NoNext
       /\ m.remaining[home[t]] <= Addr(end[t]) - (top[t] + DATA)
  /\ \A h \in DOMAIN m.next :
       Addr(SYSPAGES) <= h /\ h < Addr(b) /\ ~IsPageAddr(h) =>
         \E t \in Thread :
           Live(b, home, end, t) /\ Addr(home[t]) < h /\ h <= top[t]

Below(m, b, home, end, top) ==
  /\ b \in SYSPAGES .. TOTALPAGES
  /\ home \in [Thread -> SYSPAGES .. TOTALPAGES]
  /\ end \in [Thread -> SYSPAGES .. TOTALPAGES]
  /\ top \in [Thread -> Address]
  /\ Runs(m, b, home, end)
  /\ Chains(m, b, home, end, top)
  /\ Climbs(m)

\* All is well: the pages from b on are as they were at the beginning.
Fresh(m, b, home, end) ==
  /\ \A t \in Thread : home[t] < end[t] => end[t] <= b
  /\ \A p \in b .. TOTALPAGES - 1 :
       /\ m.owner[p] = Nobody
       /\ Addr(p) \in m.free
       /\ m.remaining[p] = PAGE_SIZE - HEADER
       /\ m.next[Addr(p)] = NoNext
  /\ \A h \in DOMAIN m.next : Addr(b) <= h => IsPageAddr(h)
  /\ \A h \in DOMAIN m.next : ~IsPageAddr(m.next[h])

\* A chunk header has fallen on the header of the page b, the lowest to
\* which it happened.
Fallen(m, b, home, end, top) ==
  /\ b < TOTALPAGES
  /\ \E o \in Thread :
       /\ home[o] < b /\ b < end[o]
       /\ top[o] \notin m.free
       /\ m.next[top[o]] = Addr(b)

\* Whoever is in myallocate runs, and is who runningID says; the page that it
\* found is still the one that it would find.
Calls ==
  \A t \in Thread :
    /\ pc[t] # "user" => t = currThread /\ runningID = t
    /\ pc[t] \in {"use", "claim"} =>
         /\ Candidates # {} /\ page[t] = FirstPage
         /\ pc[t] = "use" <=> mem.owner[FirstPage] = runningID

\* The page that was found is used or claimed, and the memory then.
TakePage(t) == UsePage(t) \/ ClaimPage(t)

ClaimedMemory ==
  IF mem.owner[FirstPage] = runningID THEN mem
  ELSE [mem EXCEPT !.owner[FirstPage] = runningID, !.free = @ \ {Addr(FirstPage)}]

\* What the locals of the call under way have to do with the pages.
Local(b, home, end, top) ==
  \A t \in Thread : pc[t] = "push" =>
    \/ /\ Live(b, home, end, t) /\ end[t] <= b
       /\ page[t] = home[t] /\ ptr[t] = top[t]
    \/ /\ Addr(b) <= ptr[t]
       /\ \/ b <= page[t]
          \/ page[t] = home[t] /\ home[t] < b /\ b < end[t]

\* Main has the first page, from before any other thread was made.
MainFirst(b) ==
  /\ SYSPAGES < b => mem.owner[SYSPAGES] = Main
  /\ nodeID > 0 => SYSPAGES < b
  /\ (\E c \in blocks : c.thread = Main) => SYSPAGES < b

InSystem(c) ==
  \E q \in 0 .. SYSPAGES - 1 :
    /\ Addr(q) \notin mem.free
    /\ Addr(q) <= c.from /\ c.from < Addr(q + 1) /\ c.to <= Addr(q + 1)

InRun(c, b, home, end, top) ==
  /\ c.thread \in Thread /\ Live(b, home, end, c.thread)
  /\ Addr(home[c.thread]) <= c.from /\ c.to <= top[c.thread]

\* The system pages that are used.
Used == nodeID + IF \E c \in blocks : c.thread = Nobody THEN 1 ELSE 0

Blocks(b, home, end, top) ==
  SystemPagesLeft =>
    /\ NoOverlap
    /\ \A c \in blocks : InSystem(c) \/ InRun(c, b, home, end, top)
    /\ process = "up" =>
         \A q \in 0 .. SYSPAGES - 1 : Addr(q) \in mem.free <=> Used <= q

Good(b, home, end, top) ==
  /\ Below(mem, b, home, end, top)
  /\ Fresh(mem, b, home, end)
  /\ \A t \in Thread : pc[t] = "push" =>
       home[t] < end[t] /\ page[t] = home[t] /\ ptr[t] = top[t]
  /\ MainFirst(b)
  /\ Blocks(b, home, end, top)

Spoilt(b, home, end, top) ==
  /\ Below(mem, b, home, end, top)
  /\ Fallen(mem, b, home, end, top)
  /\ Local(b, home, end, top)
  /\ MainFirst(b)

SystemFresh ==
  \A q \in 0 .. SYSPAGES - 1 :
    Addr(q) \in mem.free => mem.remaining[q] = PAGE_SIZE - HEADER

InOrder ==
  /\ SystemFresh
  /\ \/ \E b, home, end, top : Good(b, home, end, top)
     \/ \E b, home, end, top : Spoilt(b, home, end, top)

CallsInv == Calls /\ (nodeID = 0 => currThread = Main)

PagesInv == CallsInv /\ (NoDeficit => InOrder)

-----------------------------------------------------------------------------
(* Addresses and pages. *)

LEMMA Sized ==
  /\ TOTALPAGES \in Nat /\ SYSPAGES \in Nat /\ PAGE_SIZE \in Nat /\ HEADER \in Nat
  /\ DATA \in Nat /\ StackSize \in Nat /\ QueuesSize \in Nat /\ MaxThreads \in Nat
  /\ 0 < SYSPAGES /\ SYSPAGES < TOTALPAGES
  /\ 0 < DATA /\ DATA <= HEADER /\ HEADER < PAGE_SIZE /\ 0 < MaxThreads
  /\ Sizes \subseteq Nat
  /\ 0 < StackSize /\ StackSize + HEADER < PAGE_SIZE
  /\ 0 < QueuesSize /\ QueuesSize + HEADER < PAGE_SIZE
<1>1. /\ TOTALPAGES \in Nat /\ SYSPAGES \in Nat /\ PAGE_SIZE \in Nat /\ HEADER \in Nat
      /\ DATA \in Nat /\ MaxThreads \in Nat /\ 0 < MaxThreads
      /\ 0 < SYSPAGES /\ SYSPAGES < TOTALPAGES
      /\ 0 < DATA /\ DATA <= HEADER /\ HEADER < PAGE_SIZE
  BY PagesAssumption, HeaderAssumption, ThreadsAssumption
<1>2. StackSize \in 1 .. PAGE_SIZE - HEADER - 1 /\ QueuesSize \in 1 .. PAGE_SIZE - HEADER - 1
  BY SizesAssumption
<1>3. Sizes \subseteq Nat
  BY SizesAssumption
<1> QED
  BY <1>1, <1>2, <1>3

LEMMA AddrIsNat ==
  ASSUME NEW p \in Nat
  PROVE  Addr(p) \in Nat
  BY Sized DEF Addr

LEMMA AddrPlus ==
  ASSUME NEW p \in Nat, NEW n \in Nat
  PROVE  Addr(p + n) = Addr(p) + n * PAGE_SIZE /\ n * PAGE_SIZE \in Nat
  BY Sized DEF Addr

LEMMA AddrNext ==
  ASSUME NEW p \in Nat
  PROVE  Addr(p + 1) = Addr(p) + PAGE_SIZE
  BY Sized DEF Addr

\* A page ends before the next one begins.
LEMMA PageFits ==
  ASSUME NEW p \in Nat, NEW q \in Nat, p < q
  PROVE  Addr(p) + PAGE_SIZE <= Addr(q)
<1>1. q - (p + 1) \in Nat /\ q = (p + 1) + (q - (p + 1))
  OBVIOUS
<1> DEFINE d == q - (p + 1)
<1>2. Addr(q) = Addr(p + 1) + d * PAGE_SIZE /\ d * PAGE_SIZE \in Nat
  BY <1>1, AddrPlus
<1>3. Addr(p + 1) = Addr(p) + PAGE_SIZE /\ Addr(p) \in Nat
  BY AddrNext, AddrIsNat
<1> QED
  BY <1>2, <1>3, Sized

LEMMA AddrOrder ==
  ASSUME NEW p \in Nat, NEW q \in Nat
  PROVE  /\ Addr(p) \in Nat /\ Addr(q) \in Nat
         /\ Addr(p) < Addr(q) <=> p < q
         /\ Addr(p) <= Addr(q) <=> p <= q
         /\ Addr(p) = Addr(q) <=> p = q
         /\ p < q => Addr(p) + PAGE_SIZE <= Addr(q)
<1>1. Addr(p) \in Nat /\ Addr(q) \in Nat
  BY AddrIsNat
<1>2. p < q => Addr(p) + PAGE_SIZE <= Addr(q)
  BY PageFits
<1>3. q < p => Addr(q) + PAGE_SIZE <= Addr(p)
  BY PageFits
<1> QED
  BY <1>1, <1>2, <1>3, Sized

LEMMA MemoryEnds ==
  /\ MemSize = Addr(TOTALPAGES) /\ MemSize \in Nat
  /\ \A p \in Page : p \in Nat /\ Addr(p) \in Address /\ Addr(p) + PAGE_SIZE <= MemSize
<1>1. MemSize = Addr(TOTALPAGES) /\ MemSize \in Nat
  BY Sized DEF MemSize, Addr
<1>2. ASSUME NEW p \in Page
      PROVE  p \in Nat /\ Addr(p) \in Address /\ Addr(p) + PAGE_SIZE <= MemSize
  <2>1. p \in Nat /\ p < TOTALPAGES
    BY <1>2, Sized DEF Page
  <2> QED
    BY <1>1, <2>1, AddrOrder, Sized DEF Address
<1> QED
  BY <1>1, <1>2

LEMMA LeastIs ==
  ASSUME NEW S \in SUBSET Nat, S # {}
  PROVE  LeastOf(S) \in S /\ \A y \in S : LeastOf(S) <= y
<1>1. \E x \in S : \A y \in S : x <= y
  BY Least
<1> QED
  BY <1>1 DEF LeastOf

LEMMA LeastOne ==
  ASSUME NEW S \in SUBSET Nat, NEW x \in S, \A y \in S : x <= y
  PROVE  LeastOf(S) = x
<1>1. LeastOf(S) \in S /\ LeastOf(S) <= x
  BY LeastIs
<1>2. x <= LeastOf(S) /\ x \in Nat /\ LeastOf(S) \in Nat
  BY <1>1
<1> QED
  BY <1>1, <1>2

-----------------------------------------------------------------------------
(* A memory: the fields of the pages, and the headers at the addresses D. *)

Memory(D) ==
  [owner : [Page -> Thread \cup {Nobody}], remaining : [Page -> Int],
   free : SUBSET D, next : [D -> D \cup {NoNext}]]

IsMemory(m) ==
  /\ m \in Memory(DOMAIN m.next)
  /\ DOMAIN m.next \subseteq Address
  /\ \A p \in Page : Addr(p) \in DOMAIN m.next
  /\ \A h \in DOMAIN m.next : h + DATA <= MemSize

LEMMA MemoryFields ==
  ASSUME NEW m, IsMemory(m)
  PROVE  /\ m = [owner |-> m.owner, remaining |-> m.remaining,
                 free |-> m.free, next |-> m.next]
         /\ m.owner \in [Page -> Thread \cup {Nobody}]
         /\ m.remaining \in [Page -> Int]
         /\ m.free \subseteq DOMAIN m.next
         /\ m.next \in [DOMAIN m.next -> DOMAIN m.next \cup {NoNext}]
         /\ DOMAIN m.next \subseteq Nat
  BY MemoryEnds DEF IsMemory, Memory, Address

LEMMA HeadersFinite ==
  ASSUME NEW m, IsMemory(m)
  PROVE  IsFiniteSet(DOMAIN m.next) /\ Cardinality(DOMAIN m.next) \in Nat
<1>1. IsFiniteSet(Address)
  BY MemoryEnds, FS_Interval DEF Address
<1>2. IsFiniteSet(DOMAIN m.next)
  BY <1>1, FS_Subset DEF IsMemory
<1> QED
  BY <1>2, FS_CardinalityType

LEMMA FollowIs ==
  ASSUME NEW m, IsMemory(m), NEW h \in DOMAIN m.next
  PROVE  Follow(m, h) \in DOMAIN m.next
  BY MemoryFields DEF Follow, IsLast

\* The loop over the chunks.
LEMMA ChainIs ==
  ASSUME NEW m, IsMemory(m), NEW h \in DOMAIN m.next
  PROVE  LET n == Cardinality(DOMAIN m.next)
         IN  /\ Chain(m, h) \in [0 .. n -> DOMAIN m.next]
             /\ Chain(m, h)[0] = h
             /\ \A k \in 1 .. n : Chain(m, h)[k] = Follow(m, Chain(m, h)[k - 1])
<1> DEFINE D == DOMAIN m.next
           n == Cardinality(D)
           turn(f) == [k \in 0 .. n |-> IF k = 0 THEN h ELSE Follow(m, f[k - 1])]
           next == [k \in Nat |-> [x \in D |-> Follow(m, x)]]
<1>1. n \in Nat
  BY HeadersFinite
<1>2. \A x \in D : Follow(m, x) \in D
  BY FollowIs
<1>3. Chain(m, h) = CHOOSE f : f = turn(f)
  BY DEF Chain
<1>0. h \in D
  OBVIOUS
<1> HIDE DEF n, D
<1>4. PICK at : IsWalk(at, D, h, next, n)
  BY <1>0, <1>1, <1>2, WalkExists
<1>5. \A k \in 1 .. n : at[k] = Follow(m, at[k - 1])
  <2> TAKE k \in 1 .. n
  <2>1. k \in Nat /\ k - 1 \in 0 .. n
    BY <1>1
  <2> HIDE DEF next
  <2>2. at[k] = next[k][at[k - 1]] /\ at[k - 1] \in D
    BY <1>4, <2>1 DEF IsWalk
  <2> QED
    BY <2>1, <2>2 DEF next
<1>6. at = turn(at)
  <2>1. at \in [0 .. n -> D] /\ at[0] = h
    BY <1>4 DEF IsWalk
  <2>2. \A k \in 0 .. n : at[k] = turn(at)[k]
    BY <1>1, <1>5, <2>1
  <2> QED
    BY <2>1, <2>2
<1> DEFINE w == Chain(m, h)
<1>7. w = turn(w)
  <2> HIDE DEF turn
  <2> QED
    BY <1>3, <1>6
<1> HIDE DEF w
<1>8. w = at
  <2> DEFINE T == {k \in Nat : k \in 0 .. n => w[k] = at[k]}
  <2>1. 0 \in T
    BY <1>1, <1>6, <1>7
  <2>2. ASSUME NEW k \in Nat, k \in T PROVE k + 1 \in T
    <3> SUFFICES ASSUME k + 1 \in 0 .. n PROVE w[k + 1] = at[k + 1]
      OBVIOUS
    <3>1. k \in 0 .. n /\ k + 1 # 0 /\ (k + 1) - 1 = k
      BY <1>1
    <3>2. w[k + 1] = Follow(m, w[k]) /\ at[k + 1] = Follow(m, at[k])
      BY <1>6, <1>7, <3>1
    <3> QED
      BY <2>2, <3>1, <3>2
  <2> HIDE DEF T
  <2>3. Nat \subseteq T
    BY <2>1, <2>2, SetInduction
  <2>4. \A k \in 0 .. n : w[k] = at[k]
    BY <1>1, <2>3 DEF T
  <2>5. w = [k \in 0 .. n |-> w[k]] /\ at = [k \in 0 .. n |-> at[k]]
    BY <1>6, <1>7
  <2> QED
    BY <2>4, <2>5
<1>9. w \in [0 .. n -> D] /\ w[0] = h /\ \A k \in 1 .. n : w[k] = Follow(m, w[k - 1])
  BY <1>4, <1>5, <1>8 DEF IsWalk
<1> QED
  BY <1>9 DEF w, n, D

LEMMA LastChunkIs ==
  ASSUME NEW m, IsMemory(m), NEW h \in DOMAIN m.next
  PROVE  LastChunk(m, h) \in DOMAIN m.next
  BY ChainIs, HeadersFinite DEF LastChunk

-----------------------------------------------------------------------------
(* The pages that memPush claims. *)

LEMMA DivIs ==
  ASSUME NEW a \in Int, NEW b \in Nat, 0 < b
  PROVE  (a \div b) \in Int /\ (a \div b) * b <= a /\ a < (a \div b) * b + b
  OBVIOUS

\* Fewer pages than requested do not make up for what is missing.
LEMMA TooFew ==
  ASSUME NEW a \in Int, NEW n \in Nat, n < CeilDiv(a, PAGE_SIZE)
  PROVE  n * PAGE_SIZE < a /\ n * PAGE_SIZE \in Nat
<1> DEFINE q == (a + PAGE_SIZE - 1) \div PAGE_SIZE
<1>1. q \in Int /\ q * PAGE_SIZE <= a + PAGE_SIZE - 1
  BY Sized, DivIs
<1>2. n + 1 <= q
  BY <1>1 DEF CeilDiv
<1> HIDE DEF q
<1>3. (n + 1) * PAGE_SIZE <= q * PAGE_SIZE
  BY <1>1, <1>2, Sized
<1>4. (n + 1) * PAGE_SIZE = n * PAGE_SIZE + PAGE_SIZE /\ n * PAGE_SIZE \in Nat /\ q * PAGE_SIZE \in Int
  BY <1>1, Sized
<1> QED
  BY <1>1, <1>3, <1>4, Sized

LEMMA FreeIs ==
  ASSUME NEW m, NEW p
  PROVE  IsFree(m, p) <=> Addr(p) \in m.free
  BY DEF IsFree

\* Where the loop of memPush stops, and what it has claimed by then.
LEMMA ClaimsAre ==
  ASSUME NEW m, NEW id, NEW s \in Nat, NEW i \in Page
  PROVE  LET e == StopsAt(m, id, s, i)
             taken == Claimed(m, id, s, i)
         IN  /\ e \in i .. TOTALPAGES
             /\ taken = {p \in i .. e - 1 : Addr(p) \in m.free}
             /\ taken \subseteq Page /\ taken \subseteq Nat
             /\ IsFiniteSet(taken) /\ Cardinality(taken) \in Nat
             /\ \A n \in i .. TOTALPAGES : Foreign(m, id, n) => e <= n
             /\ PagesRequested(m, s, i) = 0 => taken = {}
<1> DEFINE S == {n \in i .. TOTALPAGES :
                   \/ Cardinality(Claims(m, i, n)) = PagesRequested(m, s, i)
                   \/ n = TOTALPAGES
                   \/ Foreign(m, id, n)
                   \/ Unclaimable(m, n)}
           e == StopsAt(m, id, s, i)
           taken == Claimed(m, id, s, i)
<1>1. i \in Nat /\ i < TOTALPAGES /\ TOTALPAGES \in Nat
  BY Sized DEF Page
<1>2. S \in SUBSET Nat /\ TOTALPAGES \in S
  BY <1>1
<1>3. e = LeastOf(S)
  BY DEF StopsAt
<1>4. e \in S /\ \A n \in S : e <= n
  BY <1>2, <1>3, LeastIs
<1>5. e \in i .. TOTALPAGES /\ e \in Nat
  BY <1>1, <1>4
<1>6. taken = {p \in i .. e - 1 : Addr(p) \in m.free}
  BY FreeIs DEF Claimed, Claims
<1> HIDE DEF e, taken
<1>7. taken \subseteq i .. e - 1 /\ taken \subseteq Page /\ taken \subseteq Nat
  BY <1>1, <1>5, <1>6 DEF Page
<1>8. IsFiniteSet(taken) /\ Cardinality(taken) \in Nat
  <2>1. IsFiniteSet(i .. e - 1)
    BY <1>1, <1>5, FS_Interval
  <2>2. IsFiniteSet(taken)
    BY <1>7, <2>1, FS_Subset
  <2> QED
    BY <2>2, FS_CardinalityType
<1>9. \A n \in i .. TOTALPAGES : Foreign(m, id, n) => e <= n
  BY <1>4
<1>10. ASSUME PagesRequested(m, s, i) = 0 PROVE taken = {}
  <2>1. Claims(m, i, i) = {}
    BY <1>1 DEF Claims
  <2>2. Cardinality(Claims(m, i, i)) = 0
    BY <2>1, FS_EmptySet
  <2>3. i \in S
    BY <1>1, <1>10, <2>2
  <2>4. e = i
    BY <1>1, <1>4, <1>5, <2>3
  <2> QED
    BY <1>1, <1>7, <2>4
<1> HIDE DEF S
<1> QED
  BY <1>5, <1>6, <1>7, <1>8, <1>9, <1>10 DEF e, taken

\* What a request leaves of an account; a page that is not to be had, and a
\* deficit, leave a deficit.
LEMMA AccountIs ==
  ASSUME NEW m, IsMemory(m), NEW id, NEW s \in Nat, NEW i \in Page
  PROVE  LET n == Cardinality(Claimed(m, id, s, i))
             a == AccountAfter(m.remaining[i], s, n)
         IN  /\ n \in Nat /\ n * PAGE_SIZE \in Nat /\ m.remaining[i] \in Int
             /\ a = m.remaining[i] - s - 2 * HEADER + n * PAGE_SIZE
             /\ a \in Int
             /\ Unsatisfied(m, id, s, i) => a < 0
             /\ m.remaining[i] < 0 => a < 0
<1> DEFINE n == Cardinality(Claimed(m, id, s, i))
           a == AccountAfter(m.remaining[i], s, n)
           r == m.remaining[i]
<1>1. n \in Nat /\ (PagesRequested(m, s, i) = 0 => n = 0)
  BY ClaimsAre, FS_EmptySet
<1>2. r \in Int
  BY MemoryFields
<1> HIDE DEF n, r
<1>3. n * PAGE_SIZE \in Nat
  BY <1>1, Sized
<1>4. AccountAfter(r, s, n) = r - s - 2 * HEADER + n * PAGE_SIZE
  BY <1>1, <1>2, <1>3, Sized DEF AccountAfter
<1>5. ASSUME Unsatisfied(m, id, s, i) PROVE AccountAfter(r, s, n) < 0
  <2>1. n < PagesRequested(m, s, i)
    BY <1>5 DEF Unsatisfied, n
  <2>2. 0 <= r /\ r <= s /\ PagesRequested(m, s, i) = CeilDiv(s - r, PAGE_SIZE)
    BY <1>1, <2>1 DEF PagesRequested, r
  <2>3. n * PAGE_SIZE < s - r
    BY <1>1, <1>2, <2>1, <2>2, TooFew
  <2> QED
    BY <1>2, <1>3, <1>4, <2>3, Sized
<1>6. ASSUME r < 0 PROVE AccountAfter(r, s, n) < 0
  <2>1. n = 0
    BY <1>1, <1>2, <1>6 DEF PagesRequested, r
  <2>2. n * PAGE_SIZE = 0
    BY <2>1, Sized
  <2> QED
    BY <1>2, <1>4, <1>6, <2>2, Sized
<1> QED
  BY <1>1, <1>2, <1>3, <1>4, <1>5, <1>6, Sized DEF n, r

-----------------------------------------------------------------------------
(* memPush, field by field. *)

\* x is m after size bytes were cut off behind the header h: the pages taken
\* belong to id, curr is the new header, a the account of the page i.
Pushed(x, m, id, h, i, taken, curr, a) ==
  /\ x = [owner |-> x.owner, remaining |-> x.remaining, free |-> x.free, next |-> x.next]
  /\ x.owner = [p \in Page |-> IF p \in taken THEN id ELSE m.owner[p]]
  /\ x.remaining = [m.remaining EXCEPT ![i] = a]
  /\ x.free = ((m.free \ {Addr(p) : p \in taken}) \cup {curr}) \ {h}
  /\ x.next = [k \in DOMAIN m.next \cup {curr} |->
                 IF k = h THEN curr ELSE IF k = curr THEN NoNext ELSE m.next[k]]

LEMMA PushIs ==
  ASSUME NEW m, NEW id, NEW h, NEW s, NEW i
  PROVE  Pushed(memPush(m, id, h, s, i), m, id, h, i, Claimed(m, id, s, i),
                NewHeader(m, id, h, s, i),
                AccountAfter(m.remaining[i], s, Cardinality(Claimed(m, id, s, i))))
  BY DEF memPush, FreeAfter, NextAfter, Pushed

LEMMA NewHeaderIs ==
  ASSUME NEW m, IsMemory(m), NEW id, NEW h \in DOMAIN m.next, NEW s \in Nat, NEW i \in Page,
         ~Faults(m, id, h, s, i)
  PROVE  LET curr == NewHeader(m, id, h, s, i)
         IN  /\ curr \in Address /\ curr + DATA <= MemSize
             /\ ~Unsatisfied(m, id, s, i) => curr = h + DATA + s
<1> DEFINE curr == NewHeader(m, id, h, s, i)
           A == Available(m, id, s, i)
<1>2. ~Unsatisfied(m, id, s, i) => curr = h + DATA + s
  BY DEF NewHeader, BadFlag
<1>3. curr \in Nat
  <2>1. CASE BadFlag(m, id, s, i)
    <3>1. A # {}
      BY <2>1 DEF Faults
    <3>2. A \subseteq Nat
      BY Sized DEF Available, UserPage
    <3>3. LeastOf(A) \in Nat
      BY <3>1, <3>2, LeastIs
    <3> QED
      BY <2>1, <3>3, AddrIsNat DEF NewHeader
  <2>2. CASE ~BadFlag(m, id, s, i)
    <3>1. h \in Nat /\ curr = h + DATA + s
      BY <2>2, MemoryFields DEF NewHeader
    <3> QED
      BY <3>1, Sized
  <2> QED
    BY <2>1, <2>2
<1>1. curr + DATA <= MemSize
  <2>1. curr + DATA \in Nat /\ MemSize \in Nat
    BY <1>3, Sized, MemoryEnds
  <2>2. ~ (curr + DATA > MemSize)
    BY DEF Faults
  <2> HIDE DEF curr
  <2> QED
    BY <2>1, <2>2
<1> HIDE DEF curr
<1>4. curr \in Address
  BY <1>1, <1>3, MemoryEnds, Sized DEF Address
<1> QED
  BY <1>1, <1>2, <1>4 DEF curr

LEMMA PushTypes ==
  ASSUME NEW m, IsMemory(m), NEW id \in Thread, NEW h \in DOMAIN m.next, NEW s \in Nat,
         NEW i \in Page, ~Faults(m, id, h, s, i)
  PROVE  /\ IsMemory(memPush(m, id, h, s, i))
         /\ DOMAIN m.next \subseteq DOMAIN memPush(m, id, h, s, i).next
<1> DEFINE x == memPush(m, id, h, s, i)
           taken == Claimed(m, id, s, i)
           curr == NewHeader(m, id, h, s, i)
           a == AccountAfter(m.remaining[i], s, Cardinality(taken))
           D == DOMAIN x.next
<1>1. curr \in Address /\ curr + DATA <= MemSize
  BY NewHeaderIs
<1>2. a \in Int
  BY AccountIs
<1>3. Pushed(x, m, id, h, i, taken, curr, a)
  BY PushIs
<1> HIDE DEF x, taken, curr, a
<1>n. /\ D = DOMAIN m.next \cup {curr}
      /\ x.next = [k \in D |-> IF k = h THEN curr
                               ELSE IF k = curr THEN NoNext ELSE m.next[k]]
  BY <1>3 DEF Pushed
<1> HIDE DEF D
<1>4. x.owner \in [Page -> Thread \cup {Nobody}]
  BY <1>3, MemoryFields DEF Pushed
<1>5. x.remaining \in [Page -> Int]
  BY <1>2, <1>3, MemoryFields DEF Pushed
<1>6. x.free \subseteq D
  BY <1>3, <1>n, MemoryFields DEF Pushed
<1>7. x.next \in [D -> D \cup {NoNext}]
  <2>1. \A k \in D : x.next[k] \in D \cup {NoNext}
    <3> TAKE k \in D
    <3>1. CASE k = h \/ k = curr
      BY <1>n, <3>1
    <3>2. CASE k # h /\ k # curr
      <4>1. k \in DOMAIN m.next /\ x.next[k] = m.next[k]
        BY <1>n, <3>2
      <4> QED
        BY <1>n, <4>1, MemoryFields
    <3> QED
      BY <3>1, <3>2
  <2> QED
    BY <1>n, <2>1
<1>8. x \in Memory(D)
  BY <1>3, <1>4, <1>5, <1>6, <1>7 DEF Memory, Pushed
<1>9. D \subseteq Address /\ (\A p \in Page : Addr(p) \in D) /\ \A k \in D : k + DATA <= MemSize
  BY <1>1, <1>n DEF IsMemory
<1> QED
  BY <1>n, <1>8, <1>9 DEF IsMemory, x, D

\* What claiming a page does to a memory.
LEMMA OwnedTypes ==
  ASSUME NEW m, IsMemory(m), NEW p \in Page, NEW id \in Thread \cup {Nobody}
  PROVE  LET x == [m EXCEPT !.owner[p] = id]
         IN  /\ IsMemory(x)
             /\ x.owner = [m.owner EXCEPT ![p] = id]
             /\ x.remaining = m.remaining /\ x.free = m.free /\ x.next = m.next
  BY DEF IsMemory, Memory

LEMMA ClaimTypes ==
  ASSUME NEW m, IsMemory(m), NEW p \in Page, NEW id \in Thread
  PROVE  LET x == [m EXCEPT !.owner[p] = id, !.free = @ \ {Addr(p)}]
         IN  /\ IsMemory(x)
             /\ x.owner = [m.owner EXCEPT ![p] = id]
             /\ x.remaining = m.remaining /\ x.free = m.free \ {Addr(p)} /\ x.next = m.next
  BY DEF IsMemory, Memory

-----------------------------------------------------------------------------
(* Types. *)

TypeInv ==
  /\ IsMemory(mem)
  /\ TypeOK
  /\ \A t \in Thread :
       /\ pc[t] = "push" => ptr[t] \in DOMAIN mem.next
       /\ pc[t] \in {"use", "claim", "push"} => page[t] \in UserPage

LEMMA Pages ==
  /\ UserPage \subseteq Page /\ Main \in Thread
  /\ \A q \in 0 .. SYSPAGES - 1 : q \in Page /\ q \in Nat
  /\ SYSPAGES \in UserPage
  BY Sized DEF UserPage, Page, Thread, Main

LEMMA MemoryTypes ==
  ASSUME NEW m, IsMemory(m)
  PROVE  /\ DOMAIN m.next \subseteq Address
         /\ m.owner \in [Page -> Thread \cup {Nobody}]
         /\ m.remaining \in [Page -> Int]
         /\ m.free \subseteq DOMAIN m.next
         /\ \A h \in DOMAIN m.next : m.next[h] \in DOMAIN m.next \cup {NoNext}
  BY MemoryFields DEF IsMemory

LEMMA PushStepTypes ==
  ASSUME TypeInv, NEW m, IsMemory(m), m.next = mem.next, NEW id \in Thread,
         NEW h \in DOMAIN m.next, NEW s \in Nat, NEW i \in Page,
         NEW t \in Thread \cup {Nobody}, Push(t, h, s, i, m, id)
  PROVE  /\ IsMemory(mem') /\ DOMAIN mem.next \subseteq DOMAIN mem'.next
         /\ blocks' \subseteq [thread : Thread \cup {Nobody}, from : 0 .. MemSize, to : Nat]
         /\ process' \in {"up", "crashed", "corrupt"}
<1>1. CASE Faults(m, id, h, s, i) \/ Tears(m, id, h, s, i)
  BY <1>1 DEF Push, TypeInv, TypeOK
<1>2. CASE ~Faults(m, id, h, s, i) /\ ~Tears(m, id, h, s, i)
  <2>1. mem' = memPush(m, id, h, s, i) /\ blocks' = blocks \cup {Block(t, h, s)}
        /\ process' = process
    BY <1>2 DEF Push
  <2>2. IsMemory(mem') /\ DOMAIN mem.next \subseteq DOMAIN mem'.next
    BY <1>2, <2>1, PushTypes
  <2>3. h + DATA \in 0 .. MemSize /\ h + DATA + s \in Nat
    <3>1. h \in Nat /\ h + DATA <= MemSize /\ MemSize \in Nat
      BY MemoryFields, MemoryEnds DEF IsMemory
    <3> QED
      BY <3>1, Sized
  <2>4. Block(t, h, s) \in [thread : Thread \cup {Nobody}, from : 0 .. MemSize, to : Nat]
    BY <2>3 DEF Block
  <2> QED
    BY <2>1, <2>2, <2>4 DEF TypeInv, TypeOK
<1> QED
  BY <1>1, <1>2

LEMMA SystemPageIs ==
  ASSUME TypeInv
  PROVE  /\ SystemPage \in 0 .. SYSPAGES - 1 /\ SystemPage \in Page
         /\ SystemAccount \in Page
         /\ FreeSystemPages # {} => Addr(SystemPage) \in mem.free /\ SystemAccount = SystemPage
         /\ FreeSystemPages # {} =>
              \A q \in 0 .. SYSPAGES - 1 : q < SystemPage => Addr(q) \notin mem.free
         /\ FreeSystemPages = {} => \A q \in 0 .. SYSPAGES - 1 : Addr(q) \notin mem.free
<1>1. FreeSystemPages \subseteq 0 .. SYSPAGES - 1 /\ FreeSystemPages \in SUBSET Nat
  BY Sized DEF FreeSystemPages
<1>2. CASE FreeSystemPages = {}
  BY <1>2, Pages, Sized, FreeIs DEF SystemPage, SystemAccount, FreeSystemPages
<1>3. CASE FreeSystemPages # {}
  <2>1. SystemPage \in FreeSystemPages /\ \A q \in FreeSystemPages : SystemPage <= q
    BY <1>1, <1>3, LeastIs DEF SystemPage
  <2>2. SystemAccount = SystemPage
    BY <1>3 DEF SystemAccount
  <2>3. \A q \in 0 .. SYSPAGES - 1 : q < SystemPage => Addr(q) \notin mem.free
    <3> SUFFICES ASSUME NEW q \in 0 .. SYSPAGES - 1, q < SystemPage, Addr(q) \in mem.free
                 PROVE  FALSE
      OBVIOUS
    <3>1. q \in FreeSystemPages
      BY FreeIs DEF FreeSystemPages
    <3>2. SystemPage <= q /\ SystemPage \in Nat /\ q \in Nat
      BY <1>1, <2>1, <3>1
    <3> QED
      BY <3>2
  <2> QED
    BY <1>1, <1>3, <2>1, <2>2, <2>3, Pages, FreeIs DEF FreeSystemPages
<1> QED
  BY <1>2, <1>3

LEMMA SystemRequestTypes ==
  ASSUME TypeInv, NEW id \in Thread \cup {Nobody}, NEW s \in Nat, SystemRequest(id, s)
  PROVE  /\ IsMemory(mem') /\ DOMAIN mem.next \subseteq DOMAIN mem'.next
         /\ blocks' \subseteq [thread : Thread \cup {Nobody}, from : 0 .. MemSize, to : Nat]
         /\ process' \in {"up", "crashed", "corrupt"}
         /\ runningID' = Main
         /\ UNCHANGED << currThread, pc, size, page, ptr >>
<1> DEFINE m == [mem EXCEPT !.owner[SystemPage] = id]
<1>1. SystemPage \in Page /\ SystemAccount \in Page /\ Addr(SystemPage) \in DOMAIN mem.next
  BY SystemPageIs DEF TypeInv, IsMemory
<1>2. IsMemory(m) /\ m.next = mem.next
  BY <1>1, OwnedTypes DEF TypeInv
<1>3. Push(id, Addr(SystemPage), s, SystemAccount, m, Main)
  BY DEF SystemRequest
<1> HIDE DEF m
<1>4. /\ IsMemory(mem') /\ DOMAIN mem.next \subseteq DOMAIN mem'.next
      /\ blocks' \subseteq [thread : Thread \cup {Nobody}, from : 0 .. MemSize, to : Nat]
      /\ process' \in {"up", "crashed", "corrupt"}
  BY <1>1, <1>2, <1>3, PushStepTypes, Pages
<1> QED
  BY <1>4 DEF SystemRequest

LEMMA FirstPageIs ==
  ASSUME TypeInv, Candidates # {}
  PROVE  /\ FirstPage \in Candidates /\ FirstPage \in UserPage /\ FirstPage \in Page
         /\ FirstPage \in Nat
         /\ \A p \in UserPage : mem.owner[p] = runningID \/ Addr(p) \in mem.free => FirstPage <= p
<1>1. Candidates \subseteq UserPage /\ Candidates \in SUBSET Nat
  BY Sized DEF Candidates, UserPage
<1>2. FirstPage \in Candidates /\ \A p \in Candidates : FirstPage <= p
  BY <1>1, LeastIs DEF FirstPage
<1>3. \A p \in UserPage : mem.owner[p] = runningID \/ Addr(p) \in mem.free => p \in Candidates
  BY FreeIs DEF Candidates
<1> QED
  BY <1>1, <1>2, <1>3, Pages

LEMMA ClaimedTypes ==
  ASSUME TypeInv, Candidates # {}
  PROVE  IsMemory(ClaimedMemory) /\ ClaimedMemory.next = mem.next
<1>1. IsMemory(mem) /\ runningID \in Thread /\ FirstPage \in Page
  BY FirstPageIs DEF TypeInv, TypeOK
<1>2. CASE mem.owner[FirstPage] = runningID
  BY <1>1, <1>2 DEF ClaimedMemory
<1>3. CASE mem.owner[FirstPage] # runningID
  BY <1>1, <1>3, ClaimTypes DEF ClaimedMemory
<1> QED
  BY <1>2, <1>3

\* The locals once the page is used or claimed.
LEMMA TakeTypes ==
  ASSUME TypeInv, NEW t \in Thread, TakePage(t)
  PROVE  TypeInv'
<1>1. ASSUME NEW m, IsMemory(m), m.next = mem.next, page[t] \in UserPage, TakeChunk(t, m)
      PROVE  TypeInv'
  <2> DEFINE last == LastChunk(m, Addr(page[t]))
  <2>1. Addr(page[t]) \in DOMAIN m.next
    BY <1>1, Pages DEF IsMemory
  <2>2. last \in DOMAIN m.next /\ last \in Address
    BY <1>1, <2>1, LastChunkIs DEF IsMemory
  <2>3. /\ mem' = m /\ ptr' = [ptr EXCEPT ![t] = last] /\ pc' = [pc EXCEPT ![t] = "push"]
        /\ UNCHANGED << blocks, nodeID, runningID, currThread, size, page, process >>
    BY <1>1 DEF TakeChunk
  <2> HIDE DEF last
  <2>4. IsMemory(mem') /\ DOMAIN mem'.next = DOMAIN mem.next
    BY <1>1, <2>3
  <2>5. TypeOK'
    BY <2>2, <2>3, <2>4, MemoryTypes DEF TypeInv, TypeOK
  <2>6. \A u \in Thread :
          /\ pc'[u] = "push" => ptr'[u] \in DOMAIN mem'.next
          /\ pc'[u] \in {"use", "claim", "push"} => page'[u] \in UserPage
    BY <1>1, <2>2, <2>3, <2>4 DEF TypeInv, TypeOK
  <2> QED
    BY <2>4, <2>5, <2>6 DEF TypeInv
<1>2. IsMemory(mem) /\ runningID \in Thread
  BY DEF TypeInv, TypeOK
<1>3. CASE UsePage(t)
  <2>1. page[t] \in UserPage /\ TakeChunk(t, mem)
    BY <1>3 DEF UsePage, At, TypeInv
  <2> QED
    BY <1>1, <1>2, <2>1
<1>4. CASE ClaimPage(t)
  <2> DEFINE p == page[t]
             m == [mem EXCEPT !.owner[p] = runningID, !.free = @ \ {Addr(p)}]
  <2>1. p \in UserPage /\ TakeChunk(t, m)
    BY <1>4 DEF ClaimPage, At, TypeInv
  <2>2. IsMemory(m) /\ m.next = mem.next
    BY <1>2, <2>1, ClaimTypes, Pages
  <2> HIDE DEF m
  <2> QED
    BY <1>1, <2>1, <2>2
<1> QED
  BY <1>3, <1>4 DEF TakePage

LEMMA InitTypes ==
  ASSUME Init
  PROVE  TypeInv
<1> DEFINE D == {Addr(p) : p \in Page}
<1>1. mem = initMemory
  BY DEF Init
<1>2. /\ mem.owner = [p \in Page |-> Nobody] /\ mem.remaining = [p \in Page |-> PAGE_SIZE - HEADER]
      /\ mem.free = D /\ mem.next = [h \in D |-> NoNext]
      /\ mem = [owner |-> mem.owner, remaining |-> mem.remaining,
                free |-> mem.free, next |-> mem.next]
  BY <1>1 DEF initMemory
<1>3. DOMAIN mem.next = D
  BY <1>2
<1>4. mem \in Memory(D)
  BY <1>2, Sized DEF Memory
<1>5. D \subseteq Address /\ \A h \in D : h + DATA <= MemSize
  <2> SUFFICES ASSUME NEW p \in Page PROVE Addr(p) \in Address /\ Addr(p) + DATA <= MemSize
    OBVIOUS
  <2> QED
    BY MemoryEnds, Sized DEF Address
<1>6. IsMemory(mem)
  BY <1>3, <1>4, <1>5 DEF IsMemory
<1>7. 0 \in Address
  BY <1>5, MemoryEnds, Pages, Sized DEF Address, Addr, Page
<1>8. TypeOK
  BY <1>6, <1>7, MemoryTypes, Pages, Sized DEF Init, TypeOK
<1> QED
  BY <1>6, <1>8 DEF TypeInv, Init

LEMMA NextTypes ==
  ASSUME TypeInv, [Next]_vars
  PROVE  TypeInv'
<1> USE DEF TypeInv
<1>1. ASSUME NEW t \in Thread, Malloc(t) PROVE TypeInv'
  BY <1>1 DEF Malloc, TypeOK, At
<1>2. ASSUME NEW t \in Thread, FindPage(t) PROVE TypeInv'
  <2> DEFINE first == FirstPage
             next == IF mem.owner[FirstPage] = runningID THEN "use" ELSE "claim"
  <2>1. /\ page' = [page EXCEPT ![t] = first] /\ pc' = [pc EXCEPT ![t] = next]
        /\ UNCHANGED << mem, blocks, nodeID, runningID, currThread, size, ptr, process >>
    BY <1>2 DEF FindPage
  <2>2. first \in UserPage /\ next \in {"use", "claim"}
    BY <1>2, FirstPageIs DEF FindPage
  <2> HIDE DEF first, next
  <2> QED
    BY <2>1, <2>2 DEF TypeOK
<1>9. ASSUME NEW t \in Thread, TakePage(t) PROVE TypeInv'
  BY <1>9, TakeTypes
<1>3. ASSUME NEW t \in Thread, NoPageLeft(t) PROVE TypeInv'
  BY <1>3 DEF NoPageLeft, TypeOK
<1>4. ASSUME NEW t \in Thread, MemPush(t) PROVE TypeInv'
  <2>1. ptr[t] \in DOMAIN mem.next /\ page[t] \in Page /\ size[t] \in Nat /\ runningID \in Thread
        /\ t \in Thread \cup {Nobody}
    <3>1. pc[t] = "push"
      BY <1>4 DEF MemPush, At
    <3>2. ptr[t] \in DOMAIN mem.next /\ page[t] \in Page
      BY <3>1, Pages
    <3>3. size[t] \in Sizes \cup {0} /\ runningID \in Thread
      BY DEF TypeOK
    <3>4. size[t] \in Nat
      <4>1. \A z \in Sizes : z \in Nat
        BY Sized
      <4>2. size[t] \in Sizes \/ size[t] = 0
        BY <3>3
      <4> QED
        BY <4>1, <4>2
    <3>5. t \in Thread \cup {Nobody}
      OBVIOUS
    <3> QED
      BY <3>2, <3>3, <3>4, <3>5
  <2>2. Push(t, ptr[t], size[t], page[t], mem, runningID)
    BY <1>4 DEF MemPush
  <2>3. /\ IsMemory(mem') /\ DOMAIN mem.next \subseteq DOMAIN mem'.next
        /\ blocks' \subseteq [thread : Thread \cup {Nobody}, from : 0 .. MemSize, to : Nat]
        /\ process' \in {"up", "crashed", "corrupt"}
    BY <2>1, <2>2, PushStepTypes
  <2>4. /\ pc' = [pc EXCEPT ![t] = "user"] /\ size' = [size EXCEPT ![t] = 0]
        /\ page' = [page EXCEPT ![t] = 0] /\ ptr' = [ptr EXCEPT ![t] = 0]
        /\ UNCHANGED << nodeID, runningID, currThread >>
    BY <1>4 DEF MemPush
  <2>5. 0 \in Address
    BY MemoryEnds, Sized DEF Address, MemSize
  <2>6. TypeOK'
    BY <2>3, <2>4, <2>5, MemoryTypes DEF TypeOK
  <2>7. \A u \in Thread :
          /\ pc'[u] = "push" => ptr'[u] \in DOMAIN mem'.next
          /\ pc'[u] \in {"use", "claim", "push"} => page'[u] \in UserPage
    BY <2>3, <2>4 DEF TypeOK
  <2> QED
    BY <2>3, <2>6, <2>7
<1>5. CASE initQueue
  <2>1. SystemRequest(Nobody, QueuesSize) /\ nodeID' = nodeID
    BY <1>5 DEF initQueue
  <2> QED
    BY <2>1, SystemRequestTypes, MemoryTypes, Pages, Sized DEF TypeOK
<1>6. CASE CreateThread
  <2>1. SystemRequest(nodeID, StackSize) /\ nodeID' = nodeID + 1 /\ nodeID < MaxThreads
    BY <1>6 DEF CreateThread
  <2>2. nodeID \in Thread /\ nodeID' \in 0 .. MaxThreads
    BY <2>1, Sized DEF TypeOK, Thread
  <2> QED
    BY <2>1, <2>2, SystemRequestTypes, MemoryTypes, Pages, Sized DEF TypeOK
<1>7. CASE Switch
  <2>1. PICK t \in 0 .. nodeID - 1 : currThread' = t
    BY <1>7 DEF Switch
  <2>2. t \in Thread
    BY <2>1, Sized DEF TypeOK, Thread
  <2> QED
    BY <1>7, <2>1, <2>2 DEF Switch, TypeOK
<1>8. CASE UNCHANGED vars
  BY <1>8 DEF vars, TypeOK
<1> QED
  BY <1>1, <1>2, <1>3, <1>4, <1>5, <1>6, <1>7, <1>8, <1>9 DEF Next, TakePage

LEMMA TypesInvariance == Spec => []TypeInv
<1> QED
  BY InitTypes, NextTypes, PTL DEF Spec

\* Also when the alarm falls between the steps of requests (after 262,
\* between the test of a page and its claim, before memPush), every chunk that
\* next leads to has a header (164-170), headers and the beginnings of blocks
\* lie in memory, and what the calls under way work on are pages of the
\* threads (345-399).
THEOREM AllocatorTypes == Spec => []TypeOK
<1>1. TypeInv => TypeOK
  BY DEF TypeInv
<1> QED
  BY <1>1, TypesInvariance, PTL

\* A request that was interrupted, however many others were made meanwhile,
\* goes on with the id of its own caller in runningID (262, 765, 771).
THEOREM CallerIsKnown == Spec => []CallerKnown
<1>1. Init => CallerKnown
  BY DEF Init, CallerKnown
<1>2. ASSUME TypeInv, CallerKnown, [Next]_vars PROVE CallerKnown'
  <2> USE DEF CallerKnown
  <2>0. pc \in [Thread -> {"user", "find", "use", "claim", "push"}] /\ currThread \in Thread
    BY <1>2 DEF TypeInv, TypeOK
  <2>1. ASSUME NEW t \in Thread, Malloc(t) PROVE CallerKnown'
    BY <2>0, <2>1 DEF Malloc, At
  <2>2. ASSUME NEW t \in Thread, FindPage(t) PROVE CallerKnown'
    BY <1>2, <2>0, <2>2 DEF FindPage, At
  <2>3. ASSUME NEW t \in Thread, NoPageLeft(t) PROVE CallerKnown'
    BY <1>2, <2>3 DEF NoPageLeft
  <2>4. ASSUME NEW t \in Thread, NEW m, At(t, "use") \/ At(t, "claim"), TakeChunk(t, m)
        PROVE  CallerKnown'
    BY <1>2, <2>0, <2>4 DEF TakeChunk, At
  <2>5. ASSUME NEW t \in Thread, UsePage(t) \/ ClaimPage(t) PROVE CallerKnown'
    BY <2>4, <2>5 DEF UsePage, ClaimPage
  <2>6. ASSUME NEW t \in Thread, MemPush(t) PROVE CallerKnown'
    BY <1>2, <2>0, <2>6 DEF MemPush, At
  <2>7. ASSUME NEW id, NEW s, SystemRequest(id, s) PROVE CallerKnown'
    BY <2>0, <2>7 DEF SystemRequest, At
  <2>8. CASE initQueue \/ CreateThread
    BY <2>7, <2>8 DEF initQueue, CreateThread
  <2>9. CASE Switch
    BY <2>9 DEF Switch
  <2>10. CASE UNCHANGED vars
    BY <1>2, <2>10 DEF vars
  <2> QED
    BY <1>2, <2>1, <2>2, <2>3, <2>5, <2>6, <2>8, <2>9, <2>10 DEF Next
<1> QED
  BY <1>1, <1>2, TypesInvariance, PTL DEF Spec

-----------------------------------------------------------------------------
(* The walk over the chunks of a thread. *)

\* A walk that climbs while it is in C, and else is in R for good, ends in R.
LEMMA Leaves ==
  ASSUME NEW m, IsMemory(m), NEW C, NEW R, C \subseteq DOMAIN m.next, R \subseteq DOMAIN m.next,
         NEW h \in C \cup R,
         \A x \in C : Follow(m, x) \in C \cup R /\ x < Follow(m, x),
         \A x \in R : Follow(m, x) \in R
  PROVE  LastChunk(m, h) \in R
<1> DEFINE D == DOMAIN m.next
           n == Cardinality(D)
           at == Chain(m, h)
<1>1. IsFiniteSet(D) /\ n \in Nat /\ D \subseteq Nat
  BY HeadersFinite, MemoryFields
<1>2. /\ at \in [0 .. n -> D] /\ at[0] = h
      /\ \A k \in 1 .. n : at[k] = Follow(m, at[k - 1])
  BY ChainIs
<1>3. LastChunk(m, h) = at[n]
  BY DEF LastChunk
<1>4. C \subseteq D /\ R \subseteq D
  OBVIOUS
<1> HIDE DEF D, n, at
<1>5. \A k \in 0 .. n : at[k] \in C \cup R
  <2> DEFINE T == {k \in Nat : k \in 0 .. n => at[k] \in C \cup R}
  <2>1. 0 \in T
    BY <1>1, <1>2
  <2>2. ASSUME NEW k \in Nat, k \in T PROVE k + 1 \in T
    <3> SUFFICES ASSUME k + 1 \in 0 .. n PROVE at[k + 1] \in C \cup R
      OBVIOUS
    <3>1. k \in 0 .. n /\ k + 1 \in 1 .. n /\ (k + 1) - 1 = k
      BY <1>1
    <3>2. at[k + 1] = Follow(m, at[k]) /\ at[k] \in C \cup R
      BY <1>2, <2>2, <3>1
    <3> QED
      BY <3>2
  <2> HIDE DEF T
  <2>3. Nat \subseteq T
    BY <2>1, <2>2, SetInduction
  <2> QED
    BY <1>1, <2>3 DEF T
<1>6. ASSUME at[n] \notin R PROVE FALSE
  <2>1. \A k \in 0 .. n : at[k] \in C \ R
    <3> DEFINE T == {d \in Nat : d \in 0 .. n => at[n - d] \notin R}
    <3>1. 0 \in T
      BY <1>1, <1>6
    <3>2. ASSUME NEW d \in Nat, d \in T PROVE d + 1 \in T
      <4> SUFFICES ASSUME d + 1 \in 0 .. n PROVE at[n - (d + 1)] \notin R
        OBVIOUS
      <4>1. d \in 0 .. n /\ n - d \in 1 .. n /\ (n - d) - 1 = n - (d + 1) /\ n - (d + 1) \in 0 .. n
        BY <1>1
      <4>2. at[n - d] = Follow(m, at[n - (d + 1)]) /\ at[n - d] \notin R
        BY <1>2, <3>2, <4>1
      <4> QED
        BY <4>2
    <3> HIDE DEF T
    <3>3. Nat \subseteq T
      BY <3>1, <3>2, SetInduction
    <3> TAKE k \in 0 .. n
    <3>4. n - k \in Nat /\ n - k \in 0 .. n /\ n - (n - k) = k
      BY <1>1
    <3>5. at[k] \notin R
      BY <3>3, <3>4 DEF T
    <3> QED
      BY <1>5, <3>5
  <2> DEFINE to == [k \in 1 .. n + 1 |-> at[k - 1]]
             r == [x \in D |-> - x]
  <2>2. to \in [1 .. n + 1 -> D] /\ r \in [D -> Int]
    <3>1. \A k \in 1 .. n + 1 : k - 1 \in 0 .. n
      BY <1>1
    <3> QED
      BY <1>1, <1>2, <3>1
  <2>3. \A k \in 1 .. (n + 1) - 1 : r[to[k + 1]] < r[to[k]]
    <3> TAKE k \in 1 .. (n + 1) - 1
    <3>1. k \in 1 .. n /\ k + 1 \in 1 .. n + 1 /\ k \in 1 .. n + 1 /\ k - 1 \in 0 .. n
          /\ (k + 1) - 1 = k /\ k \in 0 .. n
      BY <1>1
    <3>2. to[k + 1] = at[k] /\ to[k] = at[k - 1]
      <4>1. \A j \in 1 .. n + 1 : to[j] = at[j - 1]
        OBVIOUS
      <4> HIDE DEF to
      <4> QED
        BY <3>1, <4>1
    <3>3. at[k] = Follow(m, at[k - 1]) /\ at[k - 1] \in C
      BY <1>2, <2>1, <3>1
    <3>4. at[k - 1] < at[k] /\ at[k - 1] \in Nat /\ at[k] \in Nat /\ at[k] \in D /\ at[k - 1] \in D
      BY <1>1, <1>2, <3>1, <3>3
    <3>5. r[at[k]] = - at[k] /\ r[at[k - 1]] = - at[k - 1]
      BY <3>4
    <3> HIDE DEF to, r
    <3> QED
      BY <3>2, <3>4, <3>5
  <2> HIDE DEF to, r
  <2>4. n + 1 \in Nat
    BY <1>1
  <2>5. n + 1 <= n
    BY <1>1, <2>2, <2>3, <2>4, Descends DEF n
  <2> QED
    BY <1>1, <2>5
<1> QED
  BY <1>3, <1>6

LEMMA ChainEnds ==
  ASSUME NEW m, IsMemory(m), NEW p \in Page, NEW last, LeadsTo(m, p, last),
         m.next[last] = NoNext, Climbs(m)
  PROVE  LastChunk(m, Addr(p)) = last
<1> DEFINE C == ChunksOf(m, p, last) \ {last}
           R == {last}
<1>1. last \in DOMAIN m.next /\ ChunksOf(m, p, last) \subseteq DOMAIN m.next
  BY DEF LeadsTo, ChunksOf
<1>2. Addr(p) \in C \cup R
  <2>1. last \in Nat /\ Addr(p) \in Nat /\ Addr(p) <= last /\ Addr(p) \in DOMAIN m.next
    BY <1>1, MemoryFields, MemoryEnds, AddrIsNat DEF LeadsTo, ChunksOf, IsMemory
  <2> QED
    BY <2>1 DEF ChunksOf
<1>3. ASSUME NEW x \in C PROVE Follow(m, x) \in C \cup R /\ x < Follow(m, x)
  <2>1. x \notin m.free /\ m.next[x] \in ChunksOf(m, p, last) /\ x \in DOMAIN m.next
    BY <1>1, <1>3 DEF LeadsTo
  <2>2. m.next[x] \in Nat
    BY <1>1, <2>1, MemoryFields
  <2>3. Follow(m, x) = m.next[x] /\ x < m.next[x]
    BY <2>1, <2>2 DEF Follow, IsLast, NoNext, Climbs
  <2> QED
    BY <2>1, <2>3
<1>4. Follow(m, last) = last
  BY DEF Follow, IsLast
<1> HIDE DEF C
<1>5. C \subseteq DOMAIN m.next /\ R \subseteq DOMAIN m.next
  BY <1>1 DEF C
<1>6. LastChunk(m, Addr(p)) \in R
  BY <1>2, <1>3, <1>4, <1>5, Leaves
<1> QED
  BY <1>6

\* A walk that has once passed the address a does not come back.
LEMMA ChainPasses ==
  ASSUME NEW m, IsMemory(m), NEW a \in Nat, NEW h \in DOMAIN m.next,
         Climbs(m),
         \/ a <= h
         \/ \E p \in Page, last \in Nat :
              /\ h = Addr(p) /\ LeadsTo(m, p, last)
              /\ last < a /\ last \notin m.free /\ m.next[last] = a
  PROVE  a <= LastChunk(m, h)
<1> DEFINE R == {x \in DOMAIN m.next : a <= x}
<1>1. ASSUME NEW x \in R PROVE Follow(m, x) \in R
  <2>1. CASE IsLast(m, x)
    BY <2>1 DEF Follow
  <2>2. CASE ~IsLast(m, x)
    <3>1. x \in DOMAIN m.next /\ a <= x /\ m.next[x] # NoNext /\ x < m.next[x]
      BY <2>2 DEF IsLast, Climbs
    <3>2. m.next[x] \in DOMAIN m.next /\ x \in Nat /\ m.next[x] \in Nat
      BY <3>1, MemoryFields
    <3> QED
      BY <2>2, <3>1, <3>2 DEF Follow
  <2> QED
    BY <2>1, <2>2
<1>2. CASE a <= h
  <2> DEFINE C == {}
  <2>1. h \in C \cup R /\ C \subseteq DOMAIN m.next
        /\ \A x \in C : Follow(m, x) \in C \cup R /\ x < Follow(m, x)
    BY <1>2
  <2> HIDE DEF R, C
  <2>2. R \subseteq DOMAIN m.next
    BY DEF R
  <2>3. LastChunk(m, h) \in R
    BY <1>1, <2>1, <2>2, Leaves
  <2> QED
    BY <2>3 DEF R
<1>3. CASE \E p \in Page, last \in Nat :
              /\ h = Addr(p) /\ LeadsTo(m, p, last)
              /\ last < a /\ last \notin m.free /\ m.next[last] = a
  <2>1. PICK p \in Page, last \in Nat :
              /\ h = Addr(p) /\ LeadsTo(m, p, last)
              /\ last < a /\ last \notin m.free /\ m.next[last] = a
    BY <1>3
  <2> DEFINE C == ChunksOf(m, p, last)
  <2>2. last \in C /\ C \subseteq DOMAIN m.next /\ Addr(p) \in C
    <3>1. last \in C /\ C \subseteq DOMAIN m.next
      BY <2>1 DEF LeadsTo, ChunksOf
    <3>2. Addr(p) <= last /\ Addr(p) \in Nat
      BY <3>1, MemoryEnds, AddrIsNat DEF ChunksOf
    <3> QED
      BY <2>1, <3>1, <3>2 DEF ChunksOf
  <2>3. ASSUME NEW x \in C PROVE Follow(m, x) \in C \cup R /\ x < Follow(m, x)
    <3>1. CASE x = last
      <4>1. Follow(m, x) = a
        BY <2>1, <3>1 DEF Follow, IsLast, NoNext
      <4>2. a \in DOMAIN m.next
        BY <2>1, <2>2, MemoryFields DEF NoNext
      <4> QED
        BY <2>1, <3>1, <4>1, <4>2
    <3>2. CASE x # last
      <4>1. x \notin m.free /\ m.next[x] \in C /\ x \in DOMAIN m.next
        BY <2>1, <2>2, <2>3, <3>2 DEF LeadsTo
      <4>2. m.next[x] \in Nat
        BY <2>2, <4>1, MemoryFields
      <4>3. Follow(m, x) = m.next[x] /\ x < m.next[x]
        BY <4>1, <4>2 DEF Follow, IsLast, NoNext, Climbs
      <4> QED
        BY <4>1, <4>3
    <3> QED
      BY <3>1, <3>2
  <2> HIDE DEF C, R
  <2>4. R \subseteq DOMAIN m.next /\ h \in C \cup R
    BY <2>1, <2>2 DEF R
  <2>5. LastChunk(m, h) \in R
    BY <1>1, <2>2, <2>3, <2>4, Leaves
  <2> QED
    BY <2>5 DEF R
<1> QED
  BY <1>2, <1>3

-----------------------------------------------------------------------------
(* What happens elsewhere, and what is charged. *)

\* x differs from m only outside the pages from SYSPAGES to b.
SameBelow(m, x, b) ==
  /\ \A p \in SYSPAGES .. b - 1 : x.owner[p] = m.owner[p]
  /\ \A h \in Nat : Addr(SYSPAGES) <= h /\ h < Addr(b) =>
       /\ h \in DOMAIN x.next <=> h \in DOMAIN m.next
       /\ h \in x.free <=> h \in m.free
       /\ h \in DOMAIN m.next => x.next[h] = m.next[h]

\* x and m have the same headers from lo to hi.
SameHeaders(m, x, lo, hi) ==
  \A k \in Nat : lo <= k /\ k <= hi =>
    /\ k \in DOMAIN x.next <=> k \in DOMAIN m.next
    /\ k \in x.free <=> k \in m.free
    /\ k \in DOMAIN m.next => x.next[k] = m.next[k]

LEMMA ChunksAgree ==
  ASSUME NEW m, IsMemory(m), NEW x, IsMemory(x), NEW p \in Nat, NEW last,
         SameHeaders(m, x, Addr(p), last)
  PROVE  /\ ChunksOf(x, p, last) = ChunksOf(m, p, last)
         /\ LeadsTo(m, p, last) => LeadsTo(x, p, last)
<1>1. DOMAIN m.next \subseteq Nat /\ DOMAIN x.next \subseteq Nat
  BY MemoryFields
<1>2. ChunksOf(x, p, last) = ChunksOf(m, p, last)
  BY <1>1 DEF ChunksOf, SameHeaders
<1>3. ASSUME LeadsTo(m, p, last) PROVE LeadsTo(x, p, last)
  <2>1. ASSUME NEW h \in ChunksOf(m, p, last) \ {last}
        PROVE  h \notin x.free /\ x.next[h] \in ChunksOf(m, p, last)
    <3>1. h \in DOMAIN m.next /\ h \in Nat /\ Addr(p) <= h /\ h <= last
      BY <1>1 DEF ChunksOf
    <3>2. (h \in x.free <=> h \in m.free) /\ x.next[h] = m.next[h]
      BY <3>1 DEF SameHeaders
    <3> QED
      BY <1>3, <3>2 DEF LeadsTo
  <2> QED
    BY <1>2, <1>3, <2>1 DEF LeadsTo
<1> QED
  BY <1>2, <1>3

LEMMA ChunksSame ==
  ASSUME NEW m, IsMemory(m), NEW x, IsMemory(x), NEW b \in Nat, SameBelow(m, x, b),
         NEW p \in Nat, SYSPAGES <= p, NEW last \in Nat, last < Addr(b)
  PROVE  LeadsTo(m, p, last) => LeadsTo(x, p, last)
<1>1. Addr(SYSPAGES) <= Addr(p) /\ Addr(SYSPAGES) \in Nat /\ Addr(p) \in Nat /\ Addr(b) \in Nat
  BY AddrOrder, Sized
<1>2. \A h \in Nat : Addr(p) <= h /\ h <= last => Addr(SYSPAGES) <= h /\ h < Addr(b)
  BY <1>1
<1>3. SameHeaders(m, x, Addr(p), last)
  BY <1>2 DEF SameBelow, SameHeaders
<1> QED
  BY <1>3, ChunksAgree

\* The numbers of a thread that has pages below b.
LEMMA LiveIs ==
  ASSUME NEW m, IsMemory(m), NEW b, NEW home, NEW end, NEW top, Below(m, b, home, end, top),
         NEW t \in Thread, Live(b, home, end, t)
  PROVE  /\ b \in Nat /\ SYSPAGES < b /\ b <= TOTALPAGES
         /\ home[t] \in Nat /\ SYSPAGES <= home[t] /\ home[t] \in UserPage /\ home[t] \in Page
         /\ home[t] < b /\ home[t] < end[t]
         /\ end[t] \in Nat /\ end[t] <= TOTALPAGES
         /\ top[t] \in Nat /\ top[t] < Addr(b) /\ top[t] < Addr(end[t]) /\ Addr(home[t]) <= top[t]
         /\ top[t] \in DOMAIN m.next /\ LeadsTo(m, home[t], top[t])
         /\ Addr(SYSPAGES) <= top[t]
         /\ m.owner[home[t]] = t
<1>1. /\ b \in SYSPAGES .. TOTALPAGES /\ home[t] \in SYSPAGES .. TOTALPAGES
      /\ end[t] \in SYSPAGES .. TOTALPAGES /\ top[t] \in Address
  BY DEF Below
<1>2. /\ b \in Nat /\ home[t] \in Nat /\ end[t] \in Nat /\ SYSPAGES <= home[t]
      /\ home[t] < b /\ home[t] < end[t] /\ b <= TOTALPAGES /\ end[t] <= TOTALPAGES
      /\ home[t] < TOTALPAGES
  BY <1>1, Sized DEF Live
<1>3. top[t] \in Nat
  BY <1>1, MemoryEnds DEF Address
<1>4. LeadsTo(m, home[t], top[t]) /\ top[t] < Addr(end[t]) /\ top[t] < Addr(b)
  BY DEF Below, Chains
<1>5. top[t] \in DOMAIN m.next /\ Addr(home[t]) <= top[t]
  BY <1>4 DEF LeadsTo, ChunksOf
<1>6. Addr(SYSPAGES) <= Addr(home[t]) /\ Addr(SYSPAGES) \in Nat /\ Addr(home[t]) \in Nat
  BY <1>2, AddrOrder, Sized
<1>7. home[t] \in UserPage /\ home[t] \in Page
  BY <1>2, Sized DEF UserPage, Page
<1>8. m.owner[home[t]] = t
  <2>1. home[t] \in SYSPAGES .. b - 1
    BY <1>2, Sized
  <2> QED
    BY <1>2, <2>1 DEF Below, Runs
<1> QED
  BY <1>2, <1>3, <1>4, <1>5, <1>6, <1>7, <1>8, Sized

LEMMA BelowSame ==
  ASSUME NEW m, IsMemory(m), NEW x, IsMemory(x), NEW b, NEW home, NEW end, NEW top,
         Below(m, b, home, end, top), SameBelow(m, x, b), Climbs(x),
         \A t \in Thread : Live(b, home, end, t) /\ end[t] <= b =>
           x.remaining[home[t]] <= m.remaining[home[t]]
  PROVE  Below(x, b, home, end, top)
<1>1. b \in Nat /\ b \in SYSPAGES .. TOTALPAGES
  BY Sized DEF Below
<1>2. Runs(x, b, home, end)
  <2>1. ASSUME NEW p \in SYSPAGES .. b - 1
        PROVE  (Addr(p) \in x.free <=> Addr(p) \in m.free) /\ x.owner[p] = m.owner[p]
    <3>1. p \in Nat /\ SYSPAGES <= p /\ p < b
      BY <1>1, Sized
    <3>2. Addr(p) \in Nat /\ Addr(SYSPAGES) <= Addr(p) /\ Addr(p) < Addr(b)
      BY <1>1, <3>1, AddrOrder, Sized
    <3> QED
      BY <3>2 DEF SameBelow
  <2>2. Runs(m, b, home, end)
    BY DEF Below
  <2> QED
    BY <2>1, <2>2 DEF Runs
<1>3. Chains(x, b, home, end, top)
  <2>1. ASSUME NEW t \in Thread, Live(b, home, end, t)
        PROVE  /\ LeadsTo(x, home[t], top[t]) /\ top[t] < Addr(end[t]) /\ top[t] < Addr(b)
               /\ end[t] <= b =>
                    /\ x.next[top[t]] = NoNext
                    /\ x.remaining[home[t]] <= Addr(end[t]) - (top[t] + DATA)
    <3>1. /\ home[t] \in Nat /\ SYSPAGES <= home[t] /\ home[t] \in Page
          /\ end[t] \in Nat /\ top[t] \in Nat /\ top[t] < Addr(b) /\ top[t] < Addr(end[t])
          /\ top[t] \in DOMAIN m.next /\ LeadsTo(m, home[t], top[t]) /\ Addr(SYSPAGES) <= top[t]
      BY <2>1, LiveIs
    <3>2. LeadsTo(x, home[t], top[t])
      BY <1>1, <3>1, ChunksSame
    <3>3. ASSUME end[t] <= b
          PROVE  /\ x.next[top[t]] = NoNext
                 /\ x.remaining[home[t]] <= Addr(end[t]) - (top[t] + DATA)
      <4>1. x.next[top[t]] = m.next[top[t]]
        BY <3>1 DEF SameBelow
      <4>2. m.next[top[t]] = NoNext /\ m.remaining[home[t]] <= Addr(end[t]) - (top[t] + DATA)
        BY <2>1, <3>3 DEF Below, Chains
      <4>3. x.remaining[home[t]] <= m.remaining[home[t]]
        BY <2>1, <3>3
      <4>4. x.remaining[home[t]] \in Int /\ m.remaining[home[t]] \in Int
            /\ Addr(end[t]) - (top[t] + DATA) \in Int
        BY <3>1, MemoryFields, AddrIsNat, Sized
      <4> QED
        BY <4>1, <4>2, <4>3, <4>4
    <3> QED
      BY <3>1, <3>2, <3>3
  <2>2. ASSUME NEW h \in DOMAIN x.next,
               Addr(SYSPAGES) <= h, h < Addr(b), ~IsPageAddr(h)
        PROVE  \E t \in Thread : Live(b, home, end, t) /\ Addr(home[t]) < h /\ h <= top[t]
    <3>1. h \in Nat
      BY MemoryFields
    <3>2. h \in DOMAIN m.next
      BY <2>2, <3>1 DEF SameBelow
    <3> QED
      BY <2>2, <3>2 DEF Below, Chains
  <2> QED
    BY <2>1, <2>2 DEF Chains
<1> QED
  BY <1>2, <1>3 DEF Below

-----------------------------------------------------------------------------
(* A chain grows. *)

\* x is c with the header curr behind the header h.
Extended(x, c, h, curr) ==
  /\ x.owner = c.owner /\ x.remaining = c.remaining
  /\ x.free = (c.free \cup {curr}) \ {h}
  /\ x.next = [k \in DOMAIN c.next \cup {curr} |->
                 IF k = h THEN curr ELSE IF k = curr THEN NoNext ELSE c.next[k]]

\* Nothing else changes.
Untouched(x, c, h, curr) ==
  \A k : k # h /\ k # curr =>
    /\ k \in DOMAIN x.next <=> k \in DOMAIN c.next
    /\ k \in x.free <=> k \in c.free
    /\ k \in DOMAIN c.next => x.next[k] = c.next[k]

LEMMA ExtendedIs ==
  ASSUME NEW x, NEW c, IsMemory(c), NEW h \in DOMAIN c.next, NEW curr \in Nat, h < curr,
         Extended(x, c, h, curr)
  PROVE  /\ DOMAIN x.next = DOMAIN c.next \cup {curr}
         /\ x.next[h] = curr /\ x.next[curr] = NoNext /\ h \notin x.free
         /\ Untouched(x, c, h, curr)
         /\ Climbs(c) => Climbs(x)
<1>1. h \in Nat /\ h # curr
  BY MemoryFields
<1>2. DOMAIN x.next = DOMAIN c.next \cup {curr}
  BY DEF Extended
<1>3. x.next[h] = curr /\ x.next[curr] = NoNext
  BY <1>1 DEF Extended
<1>4. h \notin x.free
  BY DEF Extended
<1>5. Untouched(x, c, h, curr)
  BY DEF Extended, Untouched
<1>6. ASSUME Climbs(c), NEW k \in DOMAIN x.next, x.next[k] # NoNext PROVE k < x.next[k]
  BY <1>2, <1>3, <1>5, <1>6 DEF Climbs, Untouched
<1> QED
  BY <1>2, <1>3, <1>4, <1>5, <1>6 DEF Climbs

LEMMA ExtendElsewhere ==
  ASSUME NEW x, IsMemory(x), NEW c, IsMemory(c), NEW h \in DOMAIN c.next, NEW curr \in Nat,
         h < curr, Extended(x, c, h, curr),
         NEW b, NEW home, NEW end, NEW top, Below(c, b, home, end, top),
         curr < Addr(SYSPAGES) \/ Addr(b) <= h
  PROVE  Below(x, b, home, end, top)
<1>1. h \in Nat /\ b \in Nat /\ Addr(b) \in Nat /\ Addr(SYSPAGES) \in Nat
  BY MemoryFields, AddrIsNat, Sized DEF Below
<1>2. ASSUME NEW k \in Nat, Addr(SYSPAGES) <= k, k < Addr(b) PROVE k # h /\ k # curr
  BY <1>1, <1>2
<1>3. SameBelow(c, x, b)
  <2>1. x.owner = c.owner
    BY DEF Extended
  <2>2. Untouched(x, c, h, curr)
    BY ExtendedIs
  <2> QED
    BY <1>2, <2>1, <2>2 DEF SameBelow, Untouched
<1>4. Climbs(x)
  BY ExtendedIs DEF Below
<1>5. \A t \in Thread : Live(b, home, end, t) /\ end[t] <= b =>
        x.remaining[home[t]] <= c.remaining[home[t]]
  <2> TAKE t \in Thread
  <2> HAVE Live(b, home, end, t) /\ end[t] <= b
  <2>1. home[t] \in Page /\ x.remaining = c.remaining
    BY LiveIs DEF Extended
  <2>2. c.remaining[home[t]] \in Int
    BY <2>1, MemoryFields
  <2> QED
    BY <2>1, <2>2
<1> QED
  BY <1>3, <1>4, <1>5, BelowSame

\* The pages of two threads do not mix.
LEMMA RunsApart ==
  ASSUME NEW m, IsMemory(m), NEW b, NEW home, NEW end, NEW top, Below(m, b, home, end, top),
         NEW t \in Thread, Live(b, home, end, t), end[t] <= b,
         NEW u \in Thread, Live(b, home, end, u), t # u
  PROVE  end[t] <= home[u] \/ end[u] <= home[t]
<1>1. /\ home[t] \in Nat /\ SYSPAGES <= home[t] /\ home[t] < b /\ b \in Nat /\ end[t] \in Nat
      /\ home[u] \in Nat /\ SYSPAGES <= home[u] /\ home[u] < b /\ end[u] \in Nat
      /\ m.owner[home[t]] = t /\ m.owner[home[u]] = u
  BY LiveIs
<1>2. home[t] \in SYSPAGES .. b - 1 /\ home[u] \in SYSPAGES .. b - 1
  BY <1>1, Sized
<1>3. ~ (home[t] <= home[u] /\ home[u] < end[t])
  BY <1>1, <1>2 DEF Below, Runs
<1>4. ~ (home[u] <= home[t] /\ home[t] < end[u])
  BY <1>1, <1>2 DEF Below, Runs
<1> QED
  BY <1>1, <1>3, <1>4

\* No header is between the end of a chain and that of its pages.
LEMMA NothingAbove ==
  ASSUME NEW m, IsMemory(m), NEW b, NEW home, NEW end, NEW top, Below(m, b, home, end, top),
         NEW t \in Thread, Live(b, home, end, t), end[t] <= b,
         NEW k \in DOMAIN m.next, top[t] < k, k < Addr(end[t])
  PROVE  IsPageAddr(k)
<1> SUFFICES ASSUME ~IsPageAddr(k) PROVE FALSE
  OBVIOUS
<1>1. k \in Nat /\ b \in Nat /\ end[t] \in Nat /\ home[t] \in Nat /\ top[t] \in Nat
      /\ Addr(home[t]) <= top[t] /\ Addr(SYSPAGES) <= top[t]
  BY MemoryFields, LiveIs
<1>2. Addr(end[t]) <= Addr(b) /\ Addr(end[t]) \in Nat /\ Addr(b) \in Nat /\ Addr(SYSPAGES) \in Nat
      /\ Addr(home[t]) \in Nat
  BY <1>1, AddrOrder, Sized
<1>3. PICK u \in Thread : Live(b, home, end, u) /\ Addr(home[u]) < k /\ k <= top[u]
  <2>1. Addr(SYSPAGES) <= k /\ k < Addr(b)
    BY <1>1, <1>2
  <2> QED
    BY <2>1 DEF Below, Chains
<1>4. home[u] \in Nat /\ end[u] \in Nat /\ top[u] \in Nat /\ top[u] < Addr(end[u])
  BY <1>3, LiveIs
<1>5. u # t
  BY <1>1, <1>3
<1>6. CASE end[t] <= home[u]
  <2>1. Addr(end[t]) <= Addr(home[u]) /\ Addr(home[u]) \in Nat
    BY <1>1, <1>4, <1>6, AddrOrder
  <2> QED
    BY <1>1, <1>2, <1>3, <2>1
<1>7. CASE end[u] <= home[t]
  <2>1. Addr(end[u]) <= Addr(home[t]) /\ Addr(end[u]) \in Nat
    BY <1>1, <1>4, <1>7, AddrOrder
  <2> QED
    BY <1>1, <1>2, <1>3, <1>4, <2>1
<1> QED
  BY <1>3, <1>5, <1>6, <1>7, RunsApart

\* The header where a thread's chain ends, and the one to come, are in
\* nobody else's chain.
LEMMA OthersApart ==
  ASSUME NEW m, IsMemory(m), NEW b, NEW home, NEW end, NEW top, Below(m, b, home, end, top),
         NEW t \in Thread, Live(b, home, end, t), end[t] <= b,
         NEW u \in Thread, Live(b, home, end, u), t # u,
         NEW k \in Nat, top[t] <= k, k < Addr(end[t])
  PROVE  k < Addr(home[u]) \/ top[u] < k
<1>1. /\ home[t] \in Nat /\ end[t] \in Nat /\ top[t] \in Nat /\ Addr(home[t]) <= top[t]
      /\ home[u] \in Nat /\ end[u] \in Nat /\ top[u] \in Nat /\ top[u] < Addr(end[u])
  BY LiveIs
<1>2. CASE end[t] <= home[u]
  <2>1. Addr(end[t]) <= Addr(home[u]) /\ Addr(home[u]) \in Nat /\ Addr(end[t]) \in Nat
    BY <1>1, <1>2, AddrOrder
  <2> QED
    BY <2>1
<1>3. CASE end[u] <= home[t]
  <2>1. Addr(end[u]) <= Addr(home[t]) /\ Addr(end[u]) \in Nat /\ Addr(home[t]) \in Nat
    BY <1>1, <1>3, AddrOrder
  <2> QED
    BY <1>1, <2>1
<1> QED
  BY <1>2, <1>3, RunsApart

\* x is c with the header curr behind the chain of the thread t, whose
\* account covers what is left behind it.
Grows(x, c, b, home, end, top, t, curr) ==
  /\ IsMemory(x) /\ IsMemory(c) /\ Extended(x, c, top[t], curr)
  /\ Below(c, b, home, end, top)
  /\ Live(b, home, end, t) /\ end[t] <= b
  /\ curr \in Nat /\ top[t] < curr /\ curr < Addr(end[t])
  /\ c.remaining[home[t]] <= Addr(end[t]) - (curr + DATA)

LEMMA GrowsIs ==
  ASSUME NEW x, NEW c, NEW b, NEW home, NEW end, NEW top, NEW t \in Thread, NEW curr,
         Grows(x, c, b, home, end, top, t, curr)
  PROVE  /\ x.owner = c.owner /\ x.remaining = c.remaining
         /\ DOMAIN x.next = DOMAIN c.next \cup {curr}
         /\ x.next[top[t]] = curr /\ x.next[curr] = NoNext /\ top[t] \notin x.free
         /\ Climbs(x)
<1>1. /\ IsMemory(c) /\ Extended(x, c, top[t], curr) /\ Below(c, b, home, end, top)
      /\ Live(b, home, end, t) /\ curr \in Nat /\ top[t] < curr
  BY DEF Grows
<1>2. top[t] \in DOMAIN c.next /\ Climbs(c)
  BY <1>1, LiveIs DEF Below
<1> DEFINE h == top[t]
<1> HIDE DEF h
<1>3. Climbs(x) /\ DOMAIN x.next = DOMAIN c.next \cup {curr}
      /\ x.next[h] = curr /\ x.next[curr] = NoNext /\ h \notin x.free
  <2>1. h \in DOMAIN c.next /\ h < curr /\ Extended(x, c, h, curr)
    BY <1>1, <1>2 DEF h
  <2> QED
    BY <1>1, <1>2, <2>1, ExtendedIs
<1>5. x.owner = c.owner /\ x.remaining = c.remaining
  BY <1>1 DEF Extended
<1> QED
  BY <1>3, <1>5 DEF h

LEMMA GrowsRest ==
  ASSUME NEW x, NEW c, NEW b, NEW home, NEW end, NEW top, NEW t \in Thread, NEW curr,
         Grows(x, c, b, home, end, top, t, curr)
  PROVE  Untouched(x, c, top[t], curr)
  BY DEF Grows, Extended, Untouched

\* The chains of the others stay what they are.
LEMMA GrowsElsewhere ==
  ASSUME NEW x, NEW c, NEW b, NEW home, NEW end, NEW top, NEW t \in Thread, NEW curr,
         Grows(x, c, b, home, end, top, t, curr),
         NEW u \in Thread, Live(b, home, end, u), u # t
  PROVE  /\ LeadsTo(x, home[u], top[u])
         /\ top[u] # top[t] /\ top[u] # curr
         /\ x.next[top[u]] = c.next[top[u]] /\ (top[u] \in x.free <=> top[u] \in c.free)
<1>1. /\ IsMemory(c) /\ IsMemory(x) /\ Below(c, b, home, end, top)
      /\ Live(b, home, end, t) /\ end[t] <= b /\ curr \in Nat /\ top[t] < curr /\ curr < Addr(end[t])
  BY DEF Grows
<1>2. /\ top[t] \in Nat /\ top[t] < Addr(end[t]) /\ home[u] \in Nat /\ top[u] \in Nat
      /\ Addr(home[u]) <= top[u] /\ LeadsTo(c, home[u], top[u]) /\ top[u] \in DOMAIN c.next
  BY <1>1, LiveIs
<1>3. ASSUME NEW k \in Nat, Addr(home[u]) <= k, k <= top[u] PROVE k # top[t] /\ k # curr
  <2>0. Addr(home[u]) \in Nat
    BY <1>2, AddrIsNat
  <2>1. top[t] < Addr(home[u]) \/ top[u] < top[t]
    BY <1>1, <1>2, OthersApart
  <2>2. curr < Addr(home[u]) \/ top[u] < curr
    <3>1. top[t] <= curr
      BY <1>1, <1>2
    <3> QED
      BY <1>1, <3>1, OthersApart
  <2> QED
    BY <1>1, <1>2, <1>3, <2>0, <2>1, <2>2
<1>4. Untouched(x, c, top[t], curr)
  BY GrowsRest
<1>5. SameHeaders(c, x, Addr(home[u]), top[u])
  BY <1>3, <1>4 DEF SameHeaders, Untouched
<1>6. LeadsTo(x, home[u], top[u])
  BY <1>1, <1>2, <1>5, ChunksAgree
<1>7. top[u] # top[t] /\ top[u] # curr
  BY <1>2, <1>3
<1> QED
  BY <1>2, <1>4, <1>6, <1>7 DEF Untouched

\* The header is a chunk's: the chain is longer.
LEMMA Grow ==
  ASSUME NEW x, NEW c, NEW b, NEW home, NEW end, NEW top, NEW t \in Thread, NEW curr,
         Grows(x, c, b, home, end, top, t, curr), ~IsPageAddr(curr)
  PROVE  Below(x, b, home, end, [top EXCEPT ![t] = curr])
<1> DEFINE up == [top EXCEPT ![t] = curr]
<1>1. /\ IsMemory(c) /\ IsMemory(x) /\ Below(c, b, home, end, top)
      /\ Live(b, home, end, t) /\ end[t] <= b /\ curr \in Nat /\ top[t] < curr
      /\ curr < Addr(end[t]) /\ c.remaining[home[t]] <= Addr(end[t]) - (curr + DATA)
  BY DEF Grows
<1>2. /\ b \in Nat /\ home[t] \in Nat /\ end[t] \in Nat /\ top[t] \in Nat
      /\ Addr(home[t]) <= top[t] /\ top[t] \in DOMAIN c.next /\ LeadsTo(c, home[t], top[t])
      /\ home[t] \in Page /\ Addr(SYSPAGES) <= top[t]
  BY <1>1, LiveIs
<1>3. /\ b \in SYSPAGES .. TOTALPAGES /\ home \in [Thread -> SYSPAGES .. TOTALPAGES]
      /\ end \in [Thread -> SYSPAGES .. TOTALPAGES] /\ top \in [Thread -> Address]
      /\ Runs(c, b, home, end) /\ Chains(c, b, home, end, top)
  BY <1>1 DEF Below
<1>4. /\ x.owner = c.owner /\ x.remaining = c.remaining
      /\ DOMAIN x.next = DOMAIN c.next \cup {curr}
      /\ x.next[top[t]] = curr /\ x.next[curr] = NoNext /\ top[t] \notin x.free
      /\ Climbs(x)
  BY GrowsIs
<1>k. Untouched(x, c, top[t], curr)
  BY GrowsRest
<1>5. /\ up \in [Thread -> Address] /\ up[t] = curr /\ \A u \in Thread : u # t => up[u] = top[u]
  <2>1. curr \in Address
    BY <1>1, <1>4 DEF IsMemory
  <2> QED
    BY <1>3, <2>1
<1> HIDE DEF up
<1>6. Runs(x, b, home, end)
  <2>1. \A p \in SYSPAGES .. b - 1 : Addr(p) \notin x.free
    <3> TAKE p \in SYSPAGES .. b - 1
    <3>1. p \in Page
      BY <1>3, Sized DEF Page
    <3>2. Addr(p) # curr
      BY <3>1 DEF IsPageAddr
    <3>3. Addr(p) \notin c.free
      BY <1>3 DEF Runs
    <3> QED
      BY <1>3, <1>4, <1>k, <3>2, <3>3 DEF Untouched
  <2> QED
    BY <1>3, <1>4, <2>1 DEF Runs
<1>7. LeadsTo(x, home[t], curr)
  <2> DEFINE C == ChunksOf(c, home[t], top[t])
             X == ChunksOf(x, home[t], curr)
  <2>0. DOMAIN c.next \subseteq Nat /\ Addr(home[t]) \in Nat
    BY <1>1, <1>2, MemoryFields, AddrIsNat
  <2>1. C \subseteq X /\ curr \in X
    BY <1>1, <1>2, <1>4, <2>0 DEF ChunksOf
  <2>2. ASSUME NEW k \in X, k # curr PROVE k \in C
    <3>1. k \in DOMAIN c.next /\ k \in Nat /\ Addr(home[t]) <= k /\ k < curr
          /\ (k = Addr(home[t]) \/ ~IsPageAddr(k))
      BY <1>1, <1>4, <2>0, <2>2 DEF ChunksOf
    <3>2. k <= top[t]
      <4> SUFFICES ASSUME top[t] < k PROVE FALSE
        BY <1>2, <3>1
      <4>1. k < Addr(end[t]) /\ k # Addr(home[t])
        <5>1. Addr(end[t]) \in Nat
          BY <1>2, AddrIsNat
        <5> QED
          BY <1>1, <1>2, <2>0, <3>1, <5>1
      <4>2. IsPageAddr(k)
        BY <1>1, <3>1, <4>1, NothingAbove
      <4> QED
        BY <3>1, <4>1, <4>2
    <3> QED
      BY <3>1, <3>2 DEF ChunksOf
  <2>3. ASSUME NEW k \in X \ {curr} PROVE k \notin x.free /\ x.next[k] \in X
    <3>1. k \in C /\ k # curr
      BY <2>2
    <3>2. CASE k = top[t]
      BY <1>4, <2>1, <3>2
    <3>3. CASE k # top[t]
      <4>1. k \notin c.free /\ c.next[k] \in C /\ k \in DOMAIN c.next
        BY <1>2, <3>1, <3>3 DEF LeadsTo, ChunksOf
      <4> QED
        BY <1>k, <2>1, <3>1, <3>3, <4>1 DEF Untouched
    <3> QED
      BY <3>2, <3>3
  <2> QED
    BY <2>1, <2>3 DEF LeadsTo
<1>8. ASSUME NEW u \in Thread, Live(b, home, end, u)
      PROVE  /\ LeadsTo(x, home[u], up[u]) /\ up[u] < Addr(end[u]) /\ up[u] < Addr(b)
             /\ end[u] <= b =>
                  /\ x.next[up[u]] = NoNext
                  /\ x.remaining[home[u]] <= Addr(end[u]) - (up[u] + DATA)
  <2>1. CASE u = t
    <3>1. Addr(end[t]) <= Addr(b) /\ Addr(end[t]) \in Nat /\ Addr(b) \in Nat
      BY <1>1, <1>2, AddrOrder
    <3> QED
      BY <1>1, <1>4, <1>5, <1>7, <2>1, <3>1
  <2>2. CASE u # t
    <3>1. LeadsTo(x, home[u], top[u]) /\ x.next[top[u]] = c.next[top[u]] /\ up[u] = top[u]
      BY <1>5, <1>8, <2>2, GrowsElsewhere
    <3> QED
      BY <1>3, <1>4, <1>8, <3>1 DEF Chains
  <2> QED
    BY <2>1, <2>2
<1>9. ASSUME NEW k \in DOMAIN x.next, Addr(SYSPAGES) <= k, k < Addr(b), ~IsPageAddr(k)
      PROVE  \E u \in Thread : Live(b, home, end, u) /\ Addr(home[u]) < k /\ k <= up[u]
  <2>1. CASE k = curr
    <3>1. Addr(home[t]) < k /\ k <= up[t]
      <4>1. Addr(home[t]) \in Nat
        BY <1>2, AddrIsNat
      <4> QED
        BY <1>1, <1>2, <1>5, <2>1, <4>1
    <3> QED
      BY <1>1, <3>1
  <2>2. CASE k # curr
    <3>1. PICK u \in Thread : Live(b, home, end, u) /\ Addr(home[u]) < k /\ k <= top[u]
      BY <1>3, <1>4, <1>9, <2>2 DEF Chains
    <3>2. k \in Nat
      BY <1>1, <1>9, MemoryFields
    <3>3. k <= up[u]
      BY <1>1, <1>2, <1>5, <3>1, <3>2
    <3> QED
      BY <3>1, <3>3
  <2> QED
    BY <2>1, <2>2
<1>10. Chains(x, b, home, end, up)
  BY <1>8, <1>9 DEF Chains
<1>11. Below(x, b, home, end, up)
  BY <1>3, <1>4, <1>5, <1>6, <1>10 DEF Below
<1> QED
  BY <1>11 DEF up

\* The header is that of the page p: what is below p is left.
LEMMA Cut ==
  ASSUME NEW x, NEW c, NEW b, NEW home, NEW end, NEW top, NEW t \in Thread, NEW p \in Page,
         Grows(x, c, b, home, end, top, t, Addr(p))
  PROVE  /\ SYSPAGES < p /\ p < b
         /\ Below(x, p, home, end, top) /\ Fallen(x, p, home, end, top)
<1> DEFINE curr == Addr(p)
<1>1. /\ IsMemory(c) /\ IsMemory(x) /\ Below(c, b, home, end, top)
      /\ Live(b, home, end, t) /\ end[t] <= b /\ curr \in Nat /\ top[t] < curr
      /\ curr < Addr(end[t])
  BY DEF Grows
<1>2. /\ b \in Nat /\ home[t] \in Nat /\ end[t] \in Nat /\ top[t] \in Nat /\ SYSPAGES <= home[t]
      /\ Addr(home[t]) <= top[t] /\ top[t] \in DOMAIN c.next /\ LeadsTo(c, home[t], top[t])
      /\ home[t] \in Page /\ Addr(SYSPAGES) <= top[t] /\ top[t] < Addr(end[t])
  BY <1>1, LiveIs
<1>3. /\ b \in SYSPAGES .. TOTALPAGES /\ home \in [Thread -> SYSPAGES .. TOTALPAGES]
      /\ end \in [Thread -> SYSPAGES .. TOTALPAGES] /\ top \in [Thread -> Address]
      /\ Runs(c, b, home, end) /\ Chains(c, b, home, end, top)
  BY <1>1 DEF Below
<1>4. /\ x.owner = c.owner /\ x.remaining = c.remaining
      /\ DOMAIN x.next = DOMAIN c.next \cup {curr}
      /\ x.next[top[t]] = curr /\ top[t] \notin x.free
      /\ Climbs(x)
  <2>1. Grows(x, c, b, home, end, top, t, curr)
    OBVIOUS
  <2> HIDE DEF curr
  <2> QED
    BY <2>1, GrowsIs
<1>k. Untouched(x, c, top[t], curr)
  BY GrowsRest
<1>5. p \in Nat /\ SYSPAGES <= home[t] /\ home[t] < p /\ p < end[t] /\ p < b /\ p < TOTALPAGES
  <2>1. p \in Nat /\ p < TOTALPAGES
    BY Sized DEF Page
  <2>2. Addr(home[t]) < Addr(p) /\ Addr(home[t]) \in Nat
    BY <1>1, <1>2, AddrIsNat
  <2>3. home[t] < p
    BY <1>2, <2>1, <2>2, AddrOrder
  <2>4. p < end[t]
    BY <1>1, <1>2, <2>1, AddrOrder
  <2> QED
    BY <1>1, <1>2, <2>1, <2>3, <2>4
<1>a. \A q \in Nat : Addr(q) \in Nat /\ (q < p <=> Addr(q) < curr) /\ (q = p <=> Addr(q) = curr)
  BY <1>5, AddrOrder
<1> HIDE DEF curr
<1>6. Runs(x, p, home, end)
  <2>1. \A q \in SYSPAGES .. p - 1 : q \in SYSPAGES .. b - 1 /\ Addr(q) \notin x.free
    <3> TAKE q \in SYSPAGES .. p - 1
    <3>1. q \in Nat /\ q # p /\ q \in SYSPAGES .. b - 1
      BY <1>2, <1>5, Sized
    <3>2. Addr(q) # curr /\ Addr(q) \notin c.free
      BY <1>3, <1>a, <3>1 DEF Runs
    <3> QED
      BY <1>4, <1>k, <3>1, <3>2 DEF Untouched
  <2> QED
    BY <1>3, <1>4, <2>1 DEF Runs
<1>7. LeadsTo(x, home[t], top[t])
  <2> DEFINE C == ChunksOf(c, home[t], top[t])
             X == ChunksOf(x, home[t], top[t])
  <2>1. C = X
    <3>1. curr \notin X
      BY <1>1, <1>2 DEF ChunksOf
    <3> QED
      BY <1>4, <3>1 DEF ChunksOf
  <2>2. ASSUME NEW k \in X \ {top[t]} PROVE k \notin x.free /\ x.next[k] \in X
    <3>1. k # curr /\ k # top[t]
      BY <1>1, <1>2, <2>2 DEF ChunksOf
    <3>2. k \notin c.free /\ c.next[k] \in C /\ k \in DOMAIN c.next
      BY <1>2, <2>1, <2>2 DEF LeadsTo, ChunksOf
    <3> QED
      BY <1>k, <2>1, <3>1, <3>2 DEF Untouched
  <2> QED
    BY <1>2, <2>1, <2>2 DEF LeadsTo
<1>8. ASSUME NEW u \in Thread, Live(p, home, end, u)
      PROVE  /\ LeadsTo(x, home[u], top[u]) /\ top[u] < Addr(end[u]) /\ top[u] < curr
             /\ end[u] <= p =>
                  /\ x.next[top[u]] = NoNext
                  /\ x.remaining[home[u]] <= Addr(end[u]) - (top[u] + DATA)
  <2>0. Live(b, home, end, u)
    BY <1>2, <1>3, <1>5, <1>8 DEF Live
  <2>1. CASE u = t
    BY <1>1, <1>2, <1>5, <1>7, <2>1
  <2>2. CASE u # t
    <3>1. LeadsTo(x, home[u], top[u]) /\ x.next[top[u]] = c.next[top[u]]
      BY <2>0, <2>2, GrowsElsewhere
    <3>2. /\ home[u] \in Nat /\ end[u] \in Nat /\ top[u] \in Nat /\ top[u] < Addr(end[u])
          /\ home[u] < p
      BY <1>1, <1>8, <2>0, LiveIs DEF Live
    <3>3. end[u] <= home[t]
      BY <1>1, <1>2, <1>5, <2>0, <2>2, <3>2, RunsApart
    <3>4. end[u] <= b /\ end[u] < p
      BY <1>1, <1>2, <1>5, <3>2, <3>3
    <3>5. top[u] < curr
      BY <1>1, <1>a, <3>2, <3>4
    <3> QED
      BY <1>3, <1>4, <2>0, <3>1, <3>2, <3>4, <3>5 DEF Chains
  <2> QED
    BY <2>1, <2>2
<1>9. ASSUME NEW k \in DOMAIN x.next, Addr(SYSPAGES) <= k, k < curr, ~IsPageAddr(k)
      PROVE  \E u \in Thread : Live(p, home, end, u) /\ Addr(home[u]) < k /\ k <= top[u]
  <2>0. k \in Nat
    BY <1>1, MemoryFields
  <2>1. k \in DOMAIN c.next
    BY <1>1, <1>4, <1>9, <2>0
  <2>2. k < Addr(b)
    <3>1. curr < Addr(b) /\ Addr(b) \in Nat
      BY <1>2, <1>5, AddrOrder DEF curr
    <3> QED
      BY <1>1, <1>9, <2>0, <3>1
  <2>3. PICK u \in Thread : Live(b, home, end, u) /\ Addr(home[u]) < k /\ k <= top[u]
    BY <1>3, <1>9, <2>1, <2>2 DEF Chains
  <2>4. home[u] \in Nat
    BY <1>1, <2>3, LiveIs
  <2>5. Addr(home[u]) < curr
    BY <1>1, <1>9, <1>a, <2>0, <2>3, <2>4
  <2>6. Live(p, home, end, u)
    BY <1>a, <2>3, <2>4, <2>5 DEF Live
  <2> QED
    BY <2>3, <2>6
<1>10. Chains(x, p, home, end, top)
  BY <1>8, <1>9 DEF Chains, curr
<1>11. p \in SYSPAGES .. TOTALPAGES /\ SYSPAGES < p
  BY <1>2, <1>5, Sized
<1>12. Below(x, p, home, end, top)
  BY <1>3, <1>4, <1>6, <1>10, <1>11 DEF Below
<1>13. Fallen(x, p, home, end, top)
  BY <1>4, <1>5 DEF Fallen, curr
<1> QED
  BY <1>5, <1>11, <1>12, <1>13

-----------------------------------------------------------------------------
(* What memPush charges. *)

\* c is m after the pages taken were claimed for id and a was made the
\* account of the page i.
Charged(c, m, id, i, taken, a) ==
  /\ c.owner = [p \in Page |-> IF p \in taken THEN id ELSE m.owner[p]]
  /\ c.remaining = [m.remaining EXCEPT ![i] = a]
  /\ c.free = m.free \ {Addr(p) : p \in taken}
  /\ c.next = m.next

\* memPush charges first and then extends the chain.
LEMMA PushInTwo ==
  ASSUME NEW m, IsMemory(m), NEW id \in Thread, NEW h, NEW i \in Page, NEW taken, NEW curr,
         NEW a \in Int, NEW x, Pushed(x, m, id, h, i, taken, curr, a)
  PROVE  \E c : IsMemory(c) /\ Charged(c, m, id, i, taken, a) /\ Extended(x, c, h, curr)
<1> DEFINE c == [owner |-> [p \in Page |-> IF p \in taken THEN id ELSE m.owner[p]],
                 remaining |-> [m.remaining EXCEPT ![i] = a],
                 free |-> m.free \ {Addr(p) : p \in taken},
                 next |-> m.next]
<1>1. Charged(c, m, id, i, taken, a)
  BY DEF Charged
<1>2. Extended(x, c, h, curr)
  BY DEF Extended, Pushed
<1>3. c.owner \in [Page -> Thread \cup {Nobody}] /\ c.remaining \in [Page -> Int]
  BY MemoryFields
<1>4. c.free \subseteq DOMAIN m.next
  BY MemoryFields
<1>5. c \in Memory(DOMAIN m.next)
  BY <1>3, <1>4, MemoryFields DEF Memory
<1>6. IsMemory(c)
  BY <1>5 DEF IsMemory
<1> HIDE DEF c
<1> QED
  BY <1>1, <1>2, <1>6

\* A charge on an account, and pages taken, elsewhere.
LEMMA ChargeAside ==
  ASSUME NEW m, IsMemory(m), NEW c, IsMemory(c), NEW id, NEW i \in Page, NEW taken,
         NEW a \in Int, Charged(c, m, id, i, taken, a),
         NEW b, NEW home, NEW end, NEW top, Below(m, b, home, end, top),
         \A p \in taken : p \in Nat /\ b <= p,
         \A t \in Thread : Live(b, home, end, t) /\ end[t] <= b /\ home[t] = i =>
           a <= m.remaining[i]
  PROVE  /\ Below(c, b, home, end, top)
         /\ Fallen(m, b, home, end, top) => Fallen(c, b, home, end, top)
<1>1. /\ c.owner = [p \in Page |-> IF p \in taken THEN id ELSE m.owner[p]]
      /\ c.remaining = [m.remaining EXCEPT ![i] = a]
      /\ c.free = m.free \ {Addr(p) : p \in taken} /\ c.next = m.next
  BY DEF Charged
<1>2. b \in Nat /\ b \in SYSPAGES .. TOTALPAGES /\ Addr(b) \in Nat
  BY Sized, AddrIsNat DEF Below
<1>3. SameBelow(m, c, b)
  <2>1. ASSUME NEW p \in SYSPAGES .. b - 1 PROVE c.owner[p] = m.owner[p]
    <3>1. p \in Page /\ p \notin taken
      BY <1>2, Sized DEF Page
    <3> QED
      BY <1>1, <3>1
  <2>2. ASSUME NEW k \in Nat, k < Addr(b) PROVE k \in c.free <=> k \in m.free
    <3>1. ASSUME NEW p \in taken PROVE k # Addr(p)
      <4>1. Addr(b) <= Addr(p) /\ Addr(p) \in Nat
        BY <1>2, AddrOrder
      <4> QED
        BY <1>2, <2>2, <4>1
    <3> QED
      BY <1>1, <3>1
  <2> QED
    BY <1>1, <2>1, <2>2 DEF SameBelow
<1>4. Climbs(c)
  BY <1>1 DEF Climbs, Below
<1>5. \A t \in Thread : Live(b, home, end, t) /\ end[t] <= b =>
        c.remaining[home[t]] <= m.remaining[home[t]]
  <2> TAKE t \in Thread
  <2> HAVE Live(b, home, end, t) /\ end[t] <= b
  <2>1. home[t] \in Page
    BY LiveIs
  <2>2. m.remaining[home[t]] \in Int /\ m.remaining \in [Page -> Int]
    BY <2>1, MemoryFields
  <2> QED
    BY <1>1, <2>1, <2>2
<1>6. Below(c, b, home, end, top)
  BY <1>3, <1>4, <1>5, BelowSame
<1>7. Fallen(m, b, home, end, top) => Fallen(c, b, home, end, top)
  BY <1>1 DEF Fallen
<1> QED
  BY <1>6, <1>7

\* What is claimed and charged for a thread while all is well: the pages
\* behind its own, or none, and the account still covers what there is.
Charge(c, b, home, end, top, t, a, s, upTo, ends) ==
  /\ Below(c, upTo, home, ends, top) /\ Fresh(c, upTo, home, ends)
  /\ b <= upTo /\ Live(upTo, home, ends, t) /\ ends[t] <= upTo
  /\ end[t] <= ends[t] /\ \A u \in Thread : u # t => ends[u] = end[u]
  /\ a + s + 2 * HEADER <= Addr(ends[t]) - (top[t] + DATA)

\* The pages claimed for a thread are behind all pages that have an owner.
LEMMA TakenIs ==
  ASSUME NEW m, IsMemory(m), NEW b, NEW home, NEW end, NEW top, Below(m, b, home, end, top),
         NEW s \in Nat, NEW id, NEW i \in UserPage
  PROVE  \A p \in Claimed(m, id, s, i) : p \in Nat /\ b <= p /\ p \in UserPage
<1> TAKE p \in Claimed(m, id, s, i)
<1>1. i \in Page /\ i \in Nat /\ SYSPAGES <= i
  BY Pages, Sized DEF UserPage
<1> DEFINE e == StopsAt(m, id, s, i)
<1>2. e \in i .. TOTALPAGES /\ p \in i .. e - 1 /\ Addr(p) \in m.free
  BY <1>1, ClaimsAre
<1> HIDE DEF e
<1>3. p \in Nat /\ SYSPAGES <= p /\ p < TOTALPAGES
  BY <1>1, <1>2, Sized
<1>4. b \in Nat
  BY Sized DEF Below
<1>5. p \notin SYSPAGES .. b - 1
  BY <1>2 DEF Below, Runs
<1> QED
  BY <1>3, <1>4, <1>5, Sized DEF UserPage

\* What is left of an account that no page was claimed on.
LEMMA AccountFalls ==
  ASSUME NEW m, IsMemory(m), NEW id, NEW s \in Nat, NEW i \in Page,
         Claimed(m, id, s, i) = {}
  PROVE  LET a == AccountAfter(m.remaining[i], s, Cardinality(Claimed(m, id, s, i)))
         IN  a = m.remaining[i] - s - 2 * HEADER /\ a <= m.remaining[i] /\ a \in Int
<1> DEFINE n == Cardinality(Claimed(m, id, s, i))
           a == AccountAfter(m.remaining[i], s, n)
<1>1. n = 0
  BY FS_EmptySet
<1>2. a = m.remaining[i] - s - 2 * HEADER + n * PAGE_SIZE /\ a \in Int /\ m.remaining[i] \in Int
  BY AccountIs
<1> HIDE DEF n, a
<1>3. n * PAGE_SIZE = 0
  BY <1>1, Sized
<1>4. a = m.remaining[i] - s - 2 * HEADER /\ a <= m.remaining[i]
  BY <1>2, <1>3, Sized
<1> QED
  BY <1>2, <1>4 DEF a, n

\* The pages that a thread claims follow its own.
LEMMA ClaimsFollow ==
  ASSUME NEW m, IsMemory(m), NEW b, NEW home, NEW end, NEW top, Below(m, b, home, end, top),
         Fresh(m, b, home, end), NEW t \in Thread, Live(b, home, end, t), NEW s \in Nat
  PROVE  LET e == StopsAt(m, t, s, home[t])
         IN  /\ e \in Nat /\ e <= TOTALPAGES
             /\ Claimed(m, t, s, home[t]) = b .. e - 1
             /\ b < e => end[t] = b
<1> DEFINE e == StopsAt(m, t, s, home[t])
           taken == Claimed(m, t, s, home[t])
           i == home[t]
<1>1. /\ b \in Nat /\ b <= TOTALPAGES /\ i \in Nat /\ SYSPAGES <= i /\ i < b
      /\ i \in UserPage /\ i \in Page /\ end[t] \in Nat
  BY LiveIs
<1>2. /\ e \in i .. TOTALPAGES /\ taken = {p \in i .. e - 1 : Addr(p) \in m.free}
      /\ \A n \in i .. TOTALPAGES : Foreign(m, t, n) => e <= n
  BY <1>1, ClaimsAre
<1> HIDE DEF e, taken
<1>3. \A p \in taken : p \in Nat /\ b <= p
  BY <1>1, TakenIs DEF taken, i
<1> HIDE DEF i
<1>4. e \in Nat /\ e <= TOTALPAGES
  BY <1>1, <1>2, Sized
<1>5. taken = b .. e - 1
  <2>1. ASSUME NEW p \in b .. e - 1 PROVE p \in taken
    <3>1. p \in i .. e - 1 /\ p \in b .. TOTALPAGES - 1
      BY <1>1, <1>4, Sized
    <3>2. Addr(p) \in m.free
      BY <3>1 DEF Fresh
    <3> QED
      BY <1>2, <3>1, <3>2
  <2>2. ASSUME NEW p \in taken PROVE p \in b .. e - 1
    BY <1>1, <1>2, <1>3, <1>4, <2>2
  <2> QED
    BY <2>1, <2>2
<1>6. ASSUME b < e PROVE end[t] = b
  <2>1. b - 1 \in SYSPAGES .. b - 1 /\ b - 1 \in i .. TOTALPAGES /\ ~ (e <= b - 1)
    BY <1>1, <1>4, <1>6, Sized
  <2>2. ~ Foreign(m, t, b - 1)
    BY <1>2, <2>1
  <2>3. m.owner[b - 1] \in Thread /\ b - 1 < end[m.owner[b - 1]]
    BY <2>1 DEF Below, Runs
  <2>4. m.owner[b - 1] # Nobody
    BY <2>3, Sized DEF Thread, Nobody
  <2>5. m.owner[b - 1] = t
    BY <2>2, <2>4 DEF Foreign
  <2>6. end[t] <= b
    BY DEF Fresh, Live
  <2> QED
    BY <1>1, <2>3, <2>5, <2>6
<1> QED
  BY <1>4, <1>5, <1>6 DEF e, taken, i

LEMMA ChargeGood ==
  ASSUME NEW m, IsMemory(m), NEW c, IsMemory(c), NEW b, NEW home, NEW end, NEW top,
         Below(m, b, home, end, top), Fresh(m, b, home, end),
         NEW t \in Thread, Live(b, home, end, t), NEW s \in Nat, NEW a,
         a = AccountAfter(m.remaining[home[t]], s, Cardinality(Claimed(m, t, s, home[t]))),
         Charged(c, m, t, home[t], Claimed(m, t, s, home[t]), a)
  PROVE  \E upTo, ends : Charge(c, b, home, end, top, t, a, s, upTo, ends)
<1> DEFINE e == StopsAt(m, t, s, home[t])
           taken == Claimed(m, t, s, home[t])
           i == home[t]
           n == Cardinality(taken)
<1>1. /\ b \in Nat /\ b <= TOTALPAGES /\ i \in Nat /\ SYSPAGES <= i /\ i < b /\ i < end[t]
      /\ i \in UserPage /\ i \in Page /\ end[t] \in Nat /\ end[t] <= b
      /\ m.owner[i] = t /\ top[t] \in Nat
  BY LiveIs DEF Fresh
<1>2. /\ e \in Nat /\ e <= TOTALPAGES /\ taken = b .. e - 1 /\ (b < e => end[t] = b)
  BY ClaimsFollow
<1>3. /\ c.owner = [p \in Page |-> IF p \in taken THEN t ELSE m.owner[p]]
      /\ c.remaining = [m.remaining EXCEPT ![i] = a]
      /\ c.free = m.free \ {Addr(p) : p \in taken} /\ c.next = m.next
  BY DEF Charged
<1>4. m.remaining[i] <= Addr(end[t]) - (top[t] + DATA)
  BY <1>1 DEF Below, Chains
<1>5. /\ b \in SYSPAGES .. TOTALPAGES /\ home \in [Thread -> SYSPAGES .. TOTALPAGES]
      /\ end \in [Thread -> SYSPAGES .. TOTALPAGES] /\ top \in [Thread -> Address]
      /\ Runs(m, b, home, end) /\ Chains(m, b, home, end, top) /\ Climbs(m)
  BY DEF Below
<1>6. /\ a = m.remaining[i] - s - 2 * HEADER + n * PAGE_SIZE
      /\ a \in Int /\ m.remaining[i] \in Int /\ n \in Nat /\ n * PAGE_SIZE \in Nat
  BY <1>1, AccountIs
<1>7. CASE e <= b
  <2>1. taken = {}
    BY <1>1, <1>2, <1>7
  <2>2. a = m.remaining[i] - s - 2 * HEADER /\ a <= m.remaining[i] /\ a \in Int
    BY <1>1, <2>1, AccountFalls, ZenonT(60)
  <2> HIDE DEF e, taken, n
  <2>3. Charged(c, m, t, i, {}, a)
    BY <2>1 DEF taken
  <2> DEFINE none == {}
  <2>4. Charged(c, m, t, i, none, a) /\ \A p \in none : p \in Nat /\ b <= p
    BY <2>3
  <2> HIDE DEF none, i
  <2>5. Below(c, b, home, end, top)
    BY <1>1, <2>2, <2>4, ChargeAside
  <2>6. Fresh(c, b, home, end)
    <3>1. \A p \in b .. TOTALPAGES - 1 : p \in Page /\ p # i
      BY <1>1, Sized DEF Page
    <3>2. c.owner = [p \in Page |-> m.owner[p]] /\ c.free = m.free
      BY <1>3, <2>1
    <3>3. m.remaining \in [Page -> Int]
      BY MemoryFields
    <3> QED
      BY <1>3, <3>1, <3>2, <3>3 DEF Fresh
  <2>7. a + s + 2 * HEADER <= Addr(end[t]) - (top[t] + DATA)
    <3>1. Addr(end[t]) \in Nat
      BY <1>1, AddrIsNat
    <3> QED
      BY <1>1, <1>4, <1>6, <2>2, <3>1, Sized
  <2>8. Charge(c, b, home, end, top, t, a, s, b, end)
    BY <1>1, <2>5, <2>6, <2>7 DEF Charge
  <2> QED
    BY <2>8
<1>8. CASE b < e
  <2> DEFINE ends == [end EXCEPT ![t] = e]
  <2>1. n = e - b
    BY <1>1, <1>2, <1>8, FS_Interval
  <2>2. Addr(e) = Addr(b) + n * PAGE_SIZE /\ Addr(b) \in Nat /\ Addr(e) \in Nat
    <3>1. e = b + n
      BY <1>1, <1>2, <2>1
    <3> HIDE DEF e, n
    <3> QED
      BY <1>1, <1>2, <1>6, <3>1, AddrPlus, AddrIsNat
  <2>3. end[t] = b
    BY <1>2, <1>8
  <2> HIDE DEF e, n, taken
  <2>4. a + s + 2 * HEADER <= Addr(e) - (top[t] + DATA)
    BY <1>1, <1>4, <1>6, <2>2, <2>3, Sized
  <2>5. /\ e \in SYSPAGES .. TOTALPAGES /\ ends \in [Thread -> SYSPAGES .. TOTALPAGES]
        /\ ends[t] = e /\ \A u \in Thread : u # t => ends[u] = end[u]
    <3>1. e \in SYSPAGES .. TOTALPAGES
      BY <1>1, <1>2, <1>8, Sized
    <3> QED
      BY <1>5, <3>1
  <2> HIDE DEF ends
  <2>6. \A u \in Thread : u # t /\ home[u] < end[u] => Live(b, home, end, u) /\ end[u] <= b /\ end[u] < e
    <3> TAKE u \in Thread
    <3> HAVE u # t /\ home[u] < end[u]
    <3>1. end[u] <= b
      BY DEF Fresh
    <3>2. home[u] \in Nat /\ end[u] \in Nat
      BY <1>5, Sized
    <3> QED
      BY <1>1, <1>2, <1>8, <3>1, <3>2 DEF Live
  <2>7. Runs(c, e, home, ends)
    <3>1. ASSUME NEW p \in SYSPAGES .. e - 1
          PROVE  /\ c.owner[p] \in Thread /\ home[c.owner[p]] <= p /\ p < ends[c.owner[p]]
                 /\ Addr(p) \notin c.free
      <4>0. p \in Page /\ p \in Nat
        BY <1>2, Sized DEF Page
      <4>1. CASE p < b
        <5>1. p \in SYSPAGES .. b - 1 /\ p \notin taken
          BY <1>1, <1>2, <4>0, <4>1
        <5>2. /\ m.owner[p] \in Thread /\ home[m.owner[p]] <= p /\ p < end[m.owner[p]]
              /\ Addr(p) \notin m.free
          BY <1>5, <5>1 DEF Runs
        <5>3. p < ends[m.owner[p]]
          BY <1>1, <1>2, <1>8, <2>5, <4>0, <4>1, <5>2
        <5> QED
          BY <1>3, <4>0, <5>1, <5>2, <5>3
      <4>2. CASE b <= p
        <5>1. p \in taken /\ p < e
          BY <1>1, <1>2, <4>0, <4>2
        <5>2. c.owner[p] = t /\ Addr(p) \notin c.free
          BY <1>3, <4>0, <5>1
        <5> QED
          BY <1>1, <2>5, <4>0, <4>2, <5>1, <5>2
      <4> QED
        BY <1>1, <4>0, <4>1, <4>2
    <3>2. ASSUME NEW u \in Thread, NEW p \in SYSPAGES .. e - 1, home[u] <= p, p < ends[u]
          PROVE  c.owner[p] = u
      <4>0. p \in Page /\ p \in Nat
        BY <1>2, Sized DEF Page
      <4>1. CASE p < b
        <5>1. p \in SYSPAGES .. b - 1 /\ p \notin taken /\ p < end[u]
          BY <1>1, <1>2, <2>3, <2>5, <3>2, <4>0, <4>1
        <5>2. m.owner[p] = u
          BY <1>5, <3>2, <5>1 DEF Runs
        <5> QED
          BY <1>3, <4>0, <5>1, <5>2
      <4>2. CASE b <= p
        <5>1. p \in taken
          BY <1>1, <1>2, <4>0, <4>2
        <5>2. u = t
          <6> SUFFICES ASSUME u # t PROVE FALSE
            OBVIOUS
          <6>1. home[u] \in Nat /\ end[u] \in Nat /\ p < end[u]
            BY <1>5, <2>5, <3>2, Sized
          <6>2. end[u] <= b
            BY <2>6, <3>2, <4>0, <6>1
          <6> QED
            BY <1>1, <4>0, <4>2, <6>1, <6>2
        <5> QED
          BY <1>3, <4>0, <5>1, <5>2
      <4> QED
        BY <1>1, <4>0, <4>1, <4>2
    <3> QED
      BY <3>1, <3>2 DEF Runs
  <2>8. ASSUME NEW u \in Thread, Live(e, home, ends, u)
        PROVE  /\ LeadsTo(c, home[u], top[u]) /\ top[u] < Addr(ends[u]) /\ top[u] < Addr(e)
               /\ ends[u] <= e =>
                    /\ c.next[top[u]] = NoNext
                    /\ c.remaining[home[u]] <= Addr(ends[u]) - (top[u] + DATA)
    <3>0. Live(b, home, end, u) /\ end[u] <= b
      BY <1>1, <2>5, <2>6, <2>8 DEF Live
    <3>1. /\ LeadsTo(m, home[u], top[u]) /\ top[u] < Addr(end[u]) /\ top[u] < Addr(b)
          /\ m.next[top[u]] = NoNext
          /\ m.remaining[home[u]] <= Addr(end[u]) - (top[u] + DATA)
      BY <1>5, <3>0 DEF Chains
    <3>2. LeadsTo(c, home[u], top[u])
      BY <1>3, <3>1 DEF LeadsTo, ChunksOf
    <3>3. top[u] \in Nat /\ home[u] \in Page /\ m.owner[home[u]] = u
      BY <3>0, LiveIs
    <3>4. top[u] < Addr(e)
      BY <1>6, <2>2, <3>1, <3>3
    <3>5. m.remaining \in [Page -> Int]
      BY MemoryFields
    <3>6. CASE u = t
      BY <1>3, <1>6, <2>2, <2>4, <2>5, <3>1, <3>2, <3>3, <3>4, <3>5, <3>6, Sized
    <3>7. CASE u # t
      <4>1. home[u] # i
        BY <1>1, <3>3, <3>7
      <4> QED
        BY <1>3, <2>5, <3>1, <3>2, <3>3, <3>4, <3>5, <3>7, <4>1
    <3> QED
      BY <3>6, <3>7
  <2>9. ASSUME NEW k \in DOMAIN c.next, Addr(SYSPAGES) <= k, k < Addr(e), ~IsPageAddr(k)
        PROVE  \E u \in Thread : Live(e, home, ends, u) /\ Addr(home[u]) < k /\ k <= top[u]
    <3>1. k < Addr(b)
      <4>1. k \in Nat /\ ~ (Addr(b) <= k)
        BY <1>3, <2>9, MemoryFields DEF Fresh
      <4> QED
        BY <2>2, <4>1
    <3>2. PICK u \in Thread : Live(b, home, end, u) /\ Addr(home[u]) < k /\ k <= top[u]
      BY <1>3, <1>5, <2>9, <3>1 DEF Chains
    <3>3. home[u] \in Nat /\ end[u] \in Nat
      BY <3>2, LiveIs
    <3>4. Live(e, home, ends, u)
      BY <1>1, <1>2, <1>8, <2>5, <3>2, <3>3 DEF Live
    <3> QED
      BY <3>2, <3>4
  <2>10. Below(c, e, home, ends, top)
    <3>1. Chains(c, e, home, ends, top)
      BY <2>8, <2>9 DEF Chains
    <3>2. Climbs(c)
      BY <1>3, <1>5 DEF Climbs
    <3> QED
      BY <1>5, <2>5, <2>7, <3>1, <3>2 DEF Below
  <2>11. Fresh(c, e, home, ends)
    <3>1. \A u \in Thread : home[u] < ends[u] => ends[u] <= e
      <4> TAKE u \in Thread
      <4> HAVE home[u] < ends[u]
      <4>1. CASE u = t
        BY <1>2, <2>5, <4>1
      <4>2. CASE u # t
        <5>1. end[u] < e /\ end[u] \in Nat
          BY <1>5, <2>5, <2>6, <4>2, Sized
        <5> QED
          BY <1>2, <2>5, <4>2, <5>1
      <4> QED
        BY <4>1, <4>2
    <3>2. ASSUME NEW p \in e .. TOTALPAGES - 1
          PROVE  /\ c.owner[p] = Nobody /\ Addr(p) \in c.free
                 /\ c.remaining[p] = PAGE_SIZE - HEADER /\ c.next[Addr(p)] = NoNext
      <4>1. p \in Page /\ p \in Nat /\ p \in b .. TOTALPAGES - 1 /\ p \notin taken /\ p # i
        BY <1>1, <1>2, <1>8, Sized DEF Page
      <4>2. /\ m.owner[p] = Nobody /\ Addr(p) \in m.free
            /\ m.remaining[p] = PAGE_SIZE - HEADER /\ m.next[Addr(p)] = NoNext
        BY <4>1 DEF Fresh
      <4>3. \A q \in taken : Addr(q) # Addr(p)
        <5> TAKE q \in taken
        <5>1. q \in Nat /\ q # p
          BY <1>1, <1>2, <4>1
        <5> QED
          BY <4>1, <5>1, AddrOrder
      <4>4. m.remaining \in [Page -> Int]
        BY MemoryFields
      <4> QED
        BY <1>3, <4>1, <4>2, <4>3, <4>4
    <3>3. \A k \in DOMAIN c.next : Addr(e) <= k => IsPageAddr(k)
      <4> TAKE k \in DOMAIN c.next
      <4> HAVE Addr(e) <= k
      <4>1. k \in Nat /\ k \in DOMAIN m.next
        BY <1>3, MemoryFields
      <4>2. Addr(b) <= k
        <5>1. Addr(b) <= Addr(e)
          BY <1>6, <2>2
        <5> QED
          BY <2>2, <4>1, <5>1
      <4> QED
        BY <4>1, <4>2 DEF Fresh
    <3>4. \A k \in DOMAIN c.next : ~IsPageAddr(c.next[k])
      BY <1>3 DEF Fresh
    <3> QED
      BY <3>1, <3>2, <3>3, <3>4 DEF Fresh
  <2>12. Live(e, home, ends, t) /\ ends[t] <= e /\ end[t] <= ends[t] /\ b <= e
    BY <1>1, <1>2, <1>8, <2>5 DEF Live
  <2>13. Charge(c, b, home, end, top, t, a, s, e, ends)
    BY <2>4, <2>5, <2>10, <2>11, <2>12 DEF Charge
  <2> QED
    BY <2>13
<1> QED
  <2>1. e <= b \/ b < e
    BY <1>1, <1>2
  <2> QED
    BY <1>7, <1>8, <2>1

-----------------------------------------------------------------------------
(* memPush on the pages of the threads. *)

LEMMA PushesInTwo ==
  ASSUME NEW m, IsMemory(m), NEW id \in Thread, NEW h \in DOMAIN m.next, NEW s \in Nat,
         NEW i \in Page, ~Faults(m, id, h, s, i),
         NEW x, x = memPush(m, id, h, s, i), 0 <= x.remaining[i]
  PROVE  LET n == Cardinality(Claimed(m, id, s, i))
             a == AccountAfter(m.remaining[i], s, n)
         IN  /\ IsMemory(x) /\ a \in Int /\ 0 <= a
             /\ h + DATA + s \in Nat /\ h < h + DATA + s
             /\ \E c : /\ IsMemory(c) /\ Charged(c, m, id, i, Claimed(m, id, s, i), a)
                       /\ Extended(x, c, h, h + DATA + s)
<1> DEFINE n == Cardinality(Claimed(m, id, s, i))
           a == AccountAfter(m.remaining[i], s, n)
           taken == Claimed(m, id, s, i)
           curr == NewHeader(m, id, h, s, i)
<1>1. IsMemory(x)
  BY PushTypes
<1>2. Pushed(x, m, id, h, i, taken, curr, a)
  BY PushIs
<1>3. a \in Int /\ (Unsatisfied(m, id, s, i) => a < 0)
  BY AccountIs
<1>4. ~Unsatisfied(m, id, s, i) => curr = h + DATA + s
  BY NewHeaderIs
<1> HIDE DEF taken, curr, a
<1>5. x.remaining[i] = a
  <2>1. m.remaining \in [Page -> Int]
    BY MemoryFields
  <2> QED
    BY <1>2, <2>1 DEF Pushed
<1>6. 0 <= a /\ curr = h + DATA + s
  BY <1>3, <1>4, <1>5
<1>7. h \in Nat /\ h + DATA + s \in Nat /\ h < h + DATA + s
  BY MemoryFields, Sized
<1>8. \E c : IsMemory(c) /\ Charged(c, m, id, i, taken, a) /\ Extended(x, c, h, curr)
  BY <1>2, <1>3, PushInTwo
<1> QED
  BY <1>1, <1>3, <1>6, <1>7, <1>8 DEF taken, a, n

\* An account that still covers what there is keeps the new header within
\* the thread's pages.
LEMMA StaysWithin ==
  ASSUME NEW x, IsMemory(x), NEW c, IsMemory(c), NEW b, NEW home, NEW end, NEW top,
         Below(c, b, home, end, top), NEW t \in Thread, Live(b, home, end, t), end[t] <= b,
         NEW s \in Nat, Extended(x, c, top[t], top[t] + DATA + s),
         NEW a \in Int, 0 <= a, c.remaining[home[t]] = a,
         a + s + 2 * HEADER <= Addr(end[t]) - (top[t] + DATA)
  PROVE  Grows(x, c, b, home, end, top, t, top[t] + DATA + s)
<1>1. top[t] \in Nat /\ end[t] \in Nat
  BY LiveIs
<1>2. Addr(end[t]) \in Nat
  BY <1>1, AddrIsNat
<1>3. /\ top[t] + DATA + s \in Nat /\ top[t] < top[t] + DATA + s
      /\ top[t] + DATA + s < Addr(end[t])
      /\ a <= Addr(end[t]) - ((top[t] + DATA + s) + DATA)
  BY <1>1, <1>2, Sized
<1> QED
  BY <1>3 DEF Grows

LEMMA GrowFresh ==
  ASSUME NEW x, NEW c, NEW b, NEW home, NEW end, NEW top, NEW t \in Thread, NEW curr,
         Grows(x, c, b, home, end, top, t, curr), ~IsPageAddr(curr), Fresh(c, b, home, end)
  PROVE  Fresh(x, b, home, end)
<1>1. /\ IsMemory(c) /\ IsMemory(x) /\ Below(c, b, home, end, top)
      /\ Live(b, home, end, t) /\ end[t] <= b /\ curr \in Nat /\ top[t] < curr
      /\ curr < Addr(end[t])
  BY DEF Grows
<1>2. /\ b \in Nat /\ end[t] \in Nat /\ top[t] \in Nat /\ top[t] < Addr(b)
      /\ SYSPAGES < b /\ b <= TOTALPAGES
  BY <1>1, LiveIs
<1>3. /\ x.owner = c.owner /\ x.remaining = c.remaining
      /\ DOMAIN x.next = DOMAIN c.next \cup {curr}
      /\ x.next[top[t]] = curr /\ x.next[curr] = NoNext /\ top[t] \notin x.free
      /\ Climbs(x)
  BY GrowsIs
<1>4. Untouched(x, c, top[t], curr)
  BY GrowsRest
<1>5. curr < Addr(b) /\ Addr(b) \in Nat
  <2>1. Addr(end[t]) <= Addr(b) /\ Addr(end[t]) \in Nat /\ Addr(b) \in Nat
    BY <1>1, <1>2, AddrOrder
  <2> QED
    BY <1>1, <2>1
<1>6. ASSUME NEW p \in b .. TOTALPAGES - 1
      PROVE  /\ x.owner[p] = Nobody /\ Addr(p) \in x.free
             /\ x.remaining[p] = PAGE_SIZE - HEADER /\ x.next[Addr(p)] = NoNext
  <2>1. /\ c.owner[p] = Nobody /\ Addr(p) \in c.free
        /\ c.remaining[p] = PAGE_SIZE - HEADER /\ c.next[Addr(p)] = NoNext
    BY DEF Fresh
  <2>2. p \in Nat /\ b <= p
    BY <1>2, Sized
  <2>3. Addr(b) <= Addr(p) /\ Addr(p) \in Nat
    BY <1>2, <2>2, AddrOrder
  <2>4. Addr(p) # top[t] /\ Addr(p) # curr
    BY <1>1, <1>2, <1>5, <2>3
  <2>5. Addr(p) \in DOMAIN c.next
    BY <1>1, <2>1, MemoryFields
  <2> QED
    BY <1>3, <1>4, <2>1, <2>4, <2>5 DEF Untouched
<1>7. ASSUME NEW k \in DOMAIN x.next, Addr(b) <= k PROVE IsPageAddr(k)
  <2>1. k \in DOMAIN c.next
    BY <1>1, <1>3, <1>5, <1>7
  <2> QED
    BY <1>7, <2>1 DEF Fresh
<1>8. ASSUME NEW k \in DOMAIN x.next PROVE ~IsPageAddr(x.next[k])
  <2>1. CASE k = top[t]
    BY <1>3, <2>1
  <2>2. CASE k = curr
    <3>1. NoNext \notin Nat
      BY DEF NoNext
    <3>2. \A p \in Page : Addr(p) \in Nat
      BY Sized, AddrIsNat DEF Page
    <3> QED
      BY <1>3, <2>2, <3>1, <3>2 DEF IsPageAddr
  <2>3. CASE k # top[t] /\ k # curr
    BY <1>4, <1>8, <2>3 DEF Untouched, Fresh
  <2> QED
    BY <2>1, <2>2, <2>3
<1> QED
  BY <1>6, <1>7, <1>8 DEF Fresh

\* What memPush makes of a memory in which all is well: all is well again,
\* and the new block lies behind the thread's others and away from the rest;
\* or a header has fallen on that of a page.
GoodAgain(x, b, home, end, top, t, curr, upTo, ends) ==
  /\ ~IsPageAddr(curr)
  /\ Below(x, upTo, home, ends, [top EXCEPT ![t] = curr]) /\ Fresh(x, upTo, home, ends)
  /\ b <= upTo /\ Live(upTo, home, ends, t) /\ \A u \in Thread : u # t => ends[u] = end[u]
  /\ \A u \in Thread : u # t /\ Live(b, home, end, u) =>
       curr < Addr(home[u]) \/ top[u] < Addr(home[t])

SpoiltNow(x, home, top, upTo, ends) ==
  SYSPAGES < upTo /\ Below(x, upTo, home, ends, top) /\ Fallen(x, upTo, home, ends, top)

LEMMA GoodPush ==
  ASSUME NEW m, IsMemory(m), NEW b, NEW home, NEW end, NEW top,
         Below(m, b, home, end, top), Fresh(m, b, home, end),
         NEW t \in Thread, Live(b, home, end, t), NEW s \in Nat,
         ~Faults(m, t, top[t], s, home[t]),
         NEW x, x = memPush(m, t, top[t], s, home[t]), 0 <= x.remaining[home[t]]
  PROVE  \E upTo, ends :
           \/ GoodAgain(x, b, home, end, top, t, top[t] + DATA + s, upTo, ends)
           \/ SpoiltNow(x, home, top, upTo, ends)
<1> DEFINE i == home[t]
           h == top[t]
           a == AccountAfter(m.remaining[i], s, Cardinality(Claimed(m, t, s, i)))
           curr == h + DATA + s
<1>1. /\ i \in Page /\ h \in DOMAIN m.next /\ h \in Nat /\ b \in Nat /\ i \in Nat /\ i < b
  BY LiveIs
<1>2. IsMemory(x) /\ a \in Int /\ 0 <= a /\ curr \in Nat
  BY <1>1, PushesInTwo
<1>3. PICK c : IsMemory(c) /\ Charged(c, m, t, i, Claimed(m, t, s, i), a) /\ Extended(x, c, h, curr)
  BY <1>1, PushesInTwo
<1>4. PICK upTo, ends : Charge(c, b, home, end, top, t, a, s, upTo, ends)
  BY <1>3, ChargeGood
<1>5. /\ Below(c, upTo, home, ends, top) /\ Fresh(c, upTo, home, ends)
      /\ b <= upTo /\ Live(upTo, home, ends, t) /\ ends[t] <= upTo
      /\ \A u \in Thread : u # t => ends[u] = end[u]
      /\ a + s + 2 * HEADER <= Addr(ends[t]) - (h + DATA)
  BY <1>4 DEF Charge
<1>6. c.remaining[i] = a
  <2>1. m.remaining \in [Page -> Int]
    BY MemoryFields
  <2> HIDE DEF a
  <2> QED
    BY <1>1, <1>3, <2>1 DEF Charged
<1> HIDE DEF a
<1>7. Grows(x, c, upTo, home, ends, top, t, curr)
  BY <1>2, <1>3, <1>5, <1>6, StaysWithin
<1> HIDE DEF curr
<1>8. CASE ~IsPageAddr(curr)
  <2>1. Below(x, upTo, home, ends, [top EXCEPT ![t] = curr])
    BY <1>7, <1>8, Grow
  <2>2. Fresh(x, upTo, home, ends)
    BY <1>5, <1>7, <1>8, GrowFresh
  <2>3. ASSUME NEW u \in Thread, u # t, Live(b, home, end, u)
        PROVE  curr < Addr(home[u]) \/ top[u] < Addr(home[t])
    <3>1. upTo \in Nat /\ ends[t] \in Nat /\ curr < Addr(ends[t]) /\ home[t] \in Nat
      BY <1>3, <1>5, <1>7, LiveIs DEF Grows
    <3>2. Live(upTo, home, ends, u)
      <4>1. home[u] \in Nat /\ home[u] < b
        BY <2>3, LiveIs
      <4> QED
        BY <1>1, <1>5, <2>3, <3>1, <4>1 DEF Live
    <3>3. /\ home[u] \in Nat /\ ends[u] \in Nat /\ top[u] \in Nat /\ top[u] < Addr(ends[u])
      BY <1>3, <1>5, <3>2, LiveIs
    <3>4. CASE ends[t] <= home[u]
      <4>1. Addr(ends[t]) <= Addr(home[u]) /\ Addr(ends[t]) \in Nat /\ Addr(home[u]) \in Nat
        BY <3>1, <3>3, <3>4, AddrOrder
      <4> QED
        BY <1>2, <3>1, <4>1 DEF curr
    <3>5. CASE ends[u] <= home[t]
      <4>1. Addr(ends[u]) <= Addr(home[t]) /\ Addr(ends[u]) \in Nat /\ Addr(home[t]) \in Nat
        BY <3>1, <3>3, <3>5, AddrOrder
      <4> QED
        BY <3>3, <4>1
    <3> QED
      BY <1>3, <1>5, <2>3, <3>2, <3>4, <3>5, RunsApart
  <2>4. GoodAgain(x, b, home, end, top, t, curr, upTo, ends)
    BY <1>5, <1>8, <2>1, <2>2, <2>3 DEF GoodAgain
  <2> QED
    BY <2>4 DEF curr
<1>9. CASE IsPageAddr(curr)
  <2>1. PICK p \in Page : curr = Addr(p)
    BY <1>9 DEF IsPageAddr
  <2>2. Grows(x, c, upTo, home, ends, top, t, Addr(p))
    BY <1>7, <2>1
  <2>3. SpoiltNow(x, home, top, p, ends)
    BY <2>2, Cut DEF SpoiltNow
  <2> QED
    BY <2>3
<1> QED
  BY <1>8, <1>9

\* Below a header that has fallen on that of a page, a charge claims nothing
\* for a thread whose pages end there.
LEMMA ChargeSpoilt ==
  ASSUME NEW m, IsMemory(m), NEW c, IsMemory(c), NEW b, NEW home, NEW end, NEW top,
         Below(m, b, home, end, top), Fallen(m, b, home, end, top),
         NEW id \in Thread, NEW i \in UserPage, NEW s \in Nat,
         (Live(b, home, end, id) /\ i = home[id]) \/ b <= i,
         NEW a, a = AccountAfter(m.remaining[i], s, Cardinality(Claimed(m, id, s, i))),
         Charged(c, m, id, i, Claimed(m, id, s, i), a)
  PROVE  /\ Below(c, b, home, end, top) /\ Fallen(c, b, home, end, top)
         /\ Live(b, home, end, id) /\ end[id] <= b /\ i = home[id] =>
              a + s + 2 * HEADER <= Addr(end[id]) - (top[id] + DATA)
<1> DEFINE taken == Claimed(m, id, s, i)
<1>1. i \in Page /\ i \in Nat /\ b \in Nat
  BY Pages, Sized DEF UserPage, Below
<1>2. \A p \in taken : p \in Nat /\ b <= p
  BY TakenIs
<1>3. ASSUME Live(b, home, end, id), end[id] <= b, i = home[id]
      PROVE  taken = {}
  <2>1. PICK o \in Thread : home[o] < b /\ b < end[o]
    BY DEF Fallen
  <2>2. /\ b \in SYSPAGES .. TOTALPAGES /\ home[o] \in SYSPAGES .. TOTALPAGES
        /\ end[o] \in SYSPAGES .. TOTALPAGES /\ Runs(m, b, home, end)
    BY DEF Below
  <2>3. /\ home[id] \in Nat /\ SYSPAGES <= home[id] /\ home[id] < b /\ end[id] \in Nat
    BY <1>3, LiveIs
  <2>4. b - 1 \in SYSPAGES .. b - 1 /\ home[o] <= b - 1 /\ b - 1 < end[o]
    BY <1>1, <2>1, <2>2, <2>3, Sized
  <2>5. m.owner[b - 1] = o
    BY <2>2, <2>4 DEF Runs
  <2>6. o # id
    BY <1>1, <1>3, <2>1, <2>3
  <2>7. Foreign(m, id, b - 1)
    <3>1. o # Nobody
      BY Sized DEF Thread, Nobody
    <3> QED
      BY <2>5, <2>6, <3>1 DEF Foreign
  <2> DEFINE e == StopsAt(m, id, s, i)
  <2>8. e \in i .. TOTALPAGES /\ taken = {p \in i .. e - 1 : Addr(p) \in m.free}
        /\ \A n \in i .. TOTALPAGES : Foreign(m, id, n) => e <= n
    BY <1>1, ClaimsAre
  <2>9. b - 1 \in i .. TOTALPAGES
    BY <1>1, <1>3, <2>2, <2>3, Sized
  <2> HIDE DEF e, taken
  <2>10. e <= b - 1 /\ e \in Nat
    BY <1>1, <2>7, <2>8, <2>9
  <2>11. ASSUME NEW p \in taken PROVE FALSE
    <3>1. p \in i .. e - 1 /\ p \in Nat /\ b <= p
      BY <1>2, <2>8, <2>11
    <3> QED
      BY <1>1, <2>10, <3>1
  <2> QED
    BY <2>11
<1>4. a \in Int
  BY <1>1, AccountIs
<1>5. ASSUME NEW t \in Thread, Live(b, home, end, t), end[t] <= b, home[t] = i
      PROVE  a <= m.remaining[i]
  <2>1. m.owner[home[t]] = t /\ home[t] \in Nat /\ home[t] < b
    BY <1>5, LiveIs
  <2>2. Live(b, home, end, id) /\ i = home[id]
    BY <1>1, <1>5, <2>1
  <2>3. t = id
    BY <1>5, <2>1, <2>2, LiveIs
  <2>4. taken = {}
    BY <1>3, <1>5, <2>2, <2>3
  <2> QED
    BY <1>1, <2>4, AccountFalls
<1>6. Below(c, b, home, end, top) /\ Fallen(c, b, home, end, top)
  <2> HIDE DEF taken
  <2>1. Charged(c, m, id, i, taken, a)
    BY DEF taken
  <2> QED
    BY <1>1, <1>2, <1>4, <1>5, <2>1, ChargeAside
<1>7. ASSUME Live(b, home, end, id), end[id] <= b, i = home[id]
      PROVE  a + s + 2 * HEADER <= Addr(end[id]) - (top[id] + DATA)
  <2>1. a = m.remaining[i] - s - 2 * HEADER
    BY <1>1, <1>3, <1>7, AccountFalls
  <2>2. m.remaining[i] <= Addr(end[id]) - (top[id] + DATA) /\ m.remaining[i] \in Int
    BY <1>1, <1>7, MemoryFields DEF Below, Chains
  <2>3. end[id] \in Nat /\ top[id] \in Nat
    BY <1>7, LiveIs
  <2>4. Addr(end[id]) \in Nat
    BY <2>3, AddrIsNat
  <2> QED
    BY <2>1, <2>2, <2>3, <2>4, Sized
<1> QED
  BY <1>6, <1>7

LEMMA GrowFallen ==
  ASSUME NEW x, NEW c, NEW b, NEW home, NEW end, NEW top, NEW t \in Thread, NEW curr,
         Grows(x, c, b, home, end, top, t, curr), Fallen(c, b, home, end, top)
  PROVE  Fallen(x, b, home, end, [top EXCEPT ![t] = curr])
<1>1. /\ IsMemory(c) /\ Below(c, b, home, end, top) /\ Live(b, home, end, t) /\ end[t] <= b
  BY DEF Grows
<1>2. PICK o \in Thread : /\ home[o] < b /\ b < end[o] /\ top[o] \notin c.free
                          /\ c.next[top[o]] = Addr(b)
  BY DEF Fallen
<1>3. /\ b \in SYSPAGES .. TOTALPAGES /\ home[o] \in SYSPAGES .. TOTALPAGES
      /\ end[o] \in SYSPAGES .. TOTALPAGES /\ end[t] \in SYSPAGES .. TOTALPAGES
      /\ top \in [Thread -> Address]
  BY <1>1 DEF Below
<1>4. Live(b, home, end, o) /\ o # t
  BY <1>1, <1>2, <1>3, Sized DEF Live
<1>5. x.next[top[o]] = c.next[top[o]] /\ top[o] \notin x.free
  BY <1>2, <1>4, GrowsElsewhere
<1>6. [top EXCEPT ![t] = curr][o] = top[o]
  BY <1>3, <1>4
<1> DEFINE up == [top EXCEPT ![t] = curr]
<1> HIDE DEF up
<1>7. up[o] = top[o]
  BY <1>6 DEF up
<1>8. Fallen(x, b, home, end, up)
  BY <1>2, <1>5, <1>7 DEF Fallen
<1> QED
  BY <1>8 DEF up

LEMMA ExtendFallen ==
  ASSUME NEW x, NEW c, IsMemory(c), NEW h \in DOMAIN c.next, NEW curr \in Nat,
         h < curr, Extended(x, c, h, curr),
         NEW b, NEW home, NEW end, NEW top, Below(c, b, home, end, top),
         curr < Addr(SYSPAGES) \/ Addr(b) <= h, Fallen(c, b, home, end, top)
  PROVE  Fallen(x, b, home, end, top)
<1>1. h \in Nat /\ b \in Nat /\ Addr(b) \in Nat /\ Addr(SYSPAGES) \in Nat
  BY MemoryFields, AddrIsNat, Sized DEF Below
<1>2. PICK o \in Thread : /\ home[o] < b /\ b < end[o] /\ top[o] \notin c.free
                          /\ c.next[top[o]] = Addr(b)
  BY DEF Fallen
<1>3. /\ home[o] \in SYSPAGES .. TOTALPAGES /\ end[o] \in SYSPAGES .. TOTALPAGES
  BY DEF Below
<1>4. Live(b, home, end, o)
  BY <1>1, <1>2, <1>3, Sized DEF Live
<1>5. top[o] \in Nat /\ top[o] < Addr(b) /\ Addr(SYSPAGES) <= top[o] /\ top[o] \in DOMAIN c.next
  BY <1>4, LiveIs
<1>6. top[o] # h /\ top[o] # curr
  BY <1>1, <1>5
<1>7. Untouched(x, c, h, curr)
  BY ExtendedIs
<1>8. x.next[top[o]] = c.next[top[o]] /\ top[o] \notin x.free
  BY <1>2, <1>5, <1>6, <1>7 DEF Untouched
<1> QED
  BY <1>2, <1>8 DEF Fallen

LEMMA SpoiltPush ==
  ASSUME NEW m, IsMemory(m), NEW b, NEW home, NEW end, NEW top,
         Below(m, b, home, end, top), Fallen(m, b, home, end, top),
         NEW id \in Thread, NEW h \in DOMAIN m.next, NEW i \in UserPage, NEW s \in Nat,
         (Live(b, home, end, id) /\ i = home[id]) \/ b <= i,
         \/ Live(b, home, end, id) /\ end[id] <= b /\ i = home[id] /\ h = top[id]
         \/ Addr(b) <= h
         \/ h + DATA + s < Addr(SYSPAGES),
         ~Faults(m, id, h, s, i),
         NEW x, x = memPush(m, id, h, s, i), 0 <= x.remaining[i]
  PROVE  \E upTo, tops : SpoiltNow(x, home, tops, upTo, end)
<1> DEFINE a == AccountAfter(m.remaining[i], s, Cardinality(Claimed(m, id, s, i)))
           curr == h + DATA + s
<1>0. i \in Page
  BY Pages
<1>1. IsMemory(x) /\ a \in Int /\ 0 <= a /\ curr \in Nat /\ h < curr
  BY <1>0, PushesInTwo
<1>2. PICK c : IsMemory(c) /\ Charged(c, m, id, i, Claimed(m, id, s, i), a) /\ Extended(x, c, h, curr)
  BY <1>0, PushesInTwo
<1>3. /\ Below(c, b, home, end, top) /\ Fallen(c, b, home, end, top)
      /\ Live(b, home, end, id) /\ end[id] <= b /\ i = home[id] =>
           a + s + 2 * HEADER <= Addr(end[id]) - (top[id] + DATA)
  BY <1>2, ChargeSpoilt
<1>4. c.remaining[i] = a /\ DOMAIN c.next = DOMAIN m.next
  <2>1. m.remaining \in [Page -> Int]
    BY MemoryFields
  <2> HIDE DEF a
  <2> QED
    BY <1>0, <1>2, <2>1 DEF Charged
<1>5. SYSPAGES < b
  <2>1. PICK o \in Thread : home[o] < b
    BY DEF Fallen
  <2>2. home[o] \in SYSPAGES .. TOTALPAGES /\ b \in SYSPAGES .. TOTALPAGES
    BY DEF Below
  <2> QED
    BY <2>1, <2>2, Sized
<1> HIDE DEF a
<1>6. CASE Live(b, home, end, id) /\ end[id] <= b /\ i = home[id] /\ h = top[id]
  <2>1. Grows(x, c, b, home, end, top, id, top[id] + DATA + s)
    <3>1. Extended(x, c, top[id], top[id] + DATA + s) /\ c.remaining[home[id]] = a
          /\ a + s + 2 * HEADER <= Addr(end[id]) - (top[id] + DATA)
      BY <1>2, <1>3, <1>4, <1>6
    <3> QED
      BY <1>1, <1>2, <1>3, <1>6, <3>1, StaysWithin
  <2>2. Grows(x, c, b, home, end, top, id, curr)
    BY <1>6, <2>1
  <2> HIDE DEF curr
  <2>3. CASE ~IsPageAddr(curr)
    <3>1. Below(x, b, home, end, [top EXCEPT ![id] = curr])
      BY <2>2, <2>3, Grow
    <3>2. Fallen(x, b, home, end, [top EXCEPT ![id] = curr])
      BY <1>3, <2>2, GrowFallen
    <3> QED
      BY <1>5, <3>1, <3>2 DEF SpoiltNow
  <2>4. CASE IsPageAddr(curr)
    <3>1. PICK p \in Page : curr = Addr(p)
      BY <2>4 DEF IsPageAddr
    <3>2. Grows(x, c, b, home, end, top, id, Addr(p))
      BY <2>2, <3>1
    <3>3. SpoiltNow(x, home, top, p, end)
      BY <3>2, Cut DEF SpoiltNow
    <3> QED
      BY <3>3
  <2> QED
    BY <2>3, <2>4
<1>7. CASE Addr(b) <= h \/ h + DATA + s < Addr(SYSPAGES)
  <2>1. curr < Addr(SYSPAGES) \/ Addr(b) <= h
    BY <1>7
  <2>2. h \in DOMAIN c.next
    BY <1>4
  <2> HIDE DEF curr
  <2>3. Below(x, b, home, end, top)
    BY <1>1, <1>2, <1>3, <2>1, <2>2, ExtendElsewhere
  <2>4. Fallen(x, b, home, end, top)
    BY <1>1, <1>2, <1>3, <2>1, <2>2, ExtendFallen
  <2> QED
    BY <1>5, <2>3, <2>4 DEF SpoiltNow
<1> QED
  BY <1>6, <1>7

-----------------------------------------------------------------------------
(* The calls, and the deficits. *)

\* Only one thread is in myallocate when the alarm does not interrupt it.
LEMMA CallsStep ==
  ASSUME ~AlarmAnywhere, TypeInv, CallsInv, [Next]_vars
  PROVE  CallsInv'
<1> USE DEF CallsInv, Calls
<1>0. /\ pc \in [Thread -> {"user", "find", "use", "claim", "push"}]
      /\ page \in [Thread -> UserPage \cup {0}] /\ nodeID \in Nat /\ currThread \in Thread
  BY Sized DEF TypeInv, TypeOK
<1>1. ASSUME NEW t \in Thread, Malloc(t) PROVE CallsInv'
  BY <1>0, <1>1 DEF Malloc, At
<1>2. ASSUME NEW t \in Thread, FindPage(t) PROVE CallsInv'
  <2>1. /\ currThread = t /\ pc[t] = "find" /\ Candidates # {}
        /\ page' = [page EXCEPT ![t] = FirstPage]
        /\ pc' = [pc EXCEPT ![t] = IF mem.owner[FirstPage] = runningID THEN "use" ELSE "claim"]
        /\ UNCHANGED << mem, nodeID, runningID, currThread >>
    BY <1>2 DEF FindPage, At
  <2>2. Candidates' = Candidates /\ FirstPage' = FirstPage
    BY <2>1 DEF Candidates, FirstPage, IsFree
  <2>3. page'[t] = FirstPage /\ pc'[t] = IF mem.owner[FirstPage] = runningID THEN "use" ELSE "claim"
    BY <1>0, <2>1
  <2>4. \A u \in Thread : u # t => pc'[u] = "user"
    BY <1>0, <2>1
  <2> HIDE DEF CallsInv, Calls
  <2>5. runningID = t /\ (nodeID = 0 => currThread = Main)
    BY <2>1 DEF CallsInv, Calls
  <2>6. Calls'
    BY <2>1, <2>2, <2>3, <2>4, <2>5 DEF Calls
  <2> QED
    BY <2>1, <2>5, <2>6 DEF CallsInv
<1>9. ASSUME NEW t \in Thread, TakePage(t) PROVE CallsInv'
  BY <1>0, <1>9 DEF TakePage, UsePage, ClaimPage, TakeChunk, At
<1>3. ASSUME NEW t \in Thread, NoPageLeft(t) PROVE CallsInv'
  BY <1>0, <1>3 DEF NoPageLeft, At
<1>4. ASSUME NEW t \in Thread, MemPush(t) PROVE CallsInv'
  BY <1>0, <1>4 DEF MemPush, At
<1>5. ASSUME NEW id, NEW s, SystemRequest(id, s), nodeID' = nodeID \/ nodeID' = nodeID + 1
      PROVE  CallsInv'
  <2>1. /\ currThread = Main /\ pc[Main] = "user" /\ pc' = pc /\ currThread' = currThread
    BY <1>5 DEF SystemRequest, At
  <2> QED
    BY <1>0, <1>5, <2>1
<1>6. CASE initQueue \/ CreateThread
  BY <1>5, <1>6 DEF initQueue, CreateThread
<1>7. CASE Switch
  <2>1. pc[currThread] = "user" /\ pc' = pc /\ nodeID' = nodeID /\ nodeID # 0
    BY <1>0, <1>7 DEF Switch
  <2> QED
    BY <1>0, <2>1
<1>8. CASE UNCHANGED vars
  BY <1>8 DEF vars, Candidates, FirstPage, IsFree
<1> QED
  BY <1>1, <1>2, <1>3, <1>4, <1>6, <1>7, <1>8, <1>9 DEF Next, TakePage

\* Who asks for a system page, and for how much.
LEMMA RequestIs ==
  ASSUME TypeInv, initQueue \/ CreateThread
  PROVE  \E id \in Thread \cup {Nobody}, s \in Nat :
           /\ SystemRequest(id, s)
           /\ 0 < s /\ s + HEADER < PAGE_SIZE
           /\ \/ /\ id = Nobody /\ nodeID' = nodeID
                 /\ \A c \in blocks : c.thread # Nobody
              \/ /\ id = nodeID /\ id \in Thread /\ nodeID' = nodeID + 1
                 /\ \E c \in blocks : c.thread = Nobody
                 /\ \E c \in blocks : c.thread = Main
<1>1. CASE initQueue
  <2>1. SystemRequest(Nobody, QueuesSize) /\ nodeID' = nodeID
        /\ \A c \in blocks : c.thread # Nobody
    BY <1>1 DEF initQueue
  <2>2. QueuesSize \in Nat /\ 0 < QueuesSize /\ QueuesSize + HEADER < PAGE_SIZE
    BY Sized
  <2> QED
    BY <2>1, <2>2
<1>2. CASE CreateThread
  <2>1. /\ SystemRequest(nodeID, StackSize) /\ nodeID' = nodeID + 1 /\ nodeID < MaxThreads
        /\ \E c \in blocks : c.thread = Nobody
        /\ \E c \in blocks : c.thread = Main
    BY <1>2 DEF CreateThread
  <2>2. nodeID \in Thread
    BY <2>1, Sized DEF TypeInv, TypeOK, Thread
  <2>3. StackSize \in Nat /\ 0 < StackSize /\ StackSize + HEADER < PAGE_SIZE
    BY Sized
  <2> QED
    BY <2>1, <2>2, <2>3
<1> QED
  BY <1>1, <1>2

LEMMA PushDeficit ==
  ASSUME NEW m, IsMemory(m), NEW t, NEW id, NEW h, NEW s \in Nat, NEW i \in Page,
         m.remaining = mem.remaining, Push(t, h, s, i, m, id),
         NEW p \in UserPage, mem.remaining[p] < 0
  PROVE  mem'.remaining[p] < 0
<1> DEFINE a == AccountAfter(m.remaining[i], s, Cardinality(Claimed(m, id, s, i)))
<1>1. CASE Faults(m, id, h, s, i) \/ Tears(m, id, h, s, i)
  BY <1>1 DEF Push
<1>2. CASE ~Faults(m, id, h, s, i) /\ ~Tears(m, id, h, s, i)
  <2>1. mem' = memPush(m, id, h, s, i)
    BY <1>2 DEF Push
  <2>2. mem'.remaining = [m.remaining EXCEPT ![i] = a]
    BY <2>1 DEF memPush
  <2>3. m.remaining[i] < 0 => a < 0
    BY AccountIs
  <2>4. p \in Page /\ m.remaining \in [Page -> Int]
    BY Pages, MemoryFields
  <2> HIDE DEF a
  <2> QED
    BY <2>2, <2>3, <2>4
<1> QED
  BY <1>1, <1>2

LEMMA ClaimedRest ==
  ASSUME TypeInv, Candidates # {}
  PROVE  ClaimedMemory.remaining = mem.remaining
<1>1. IsMemory(mem) /\ runningID \in Thread /\ FirstPage \in Page
  BY FirstPageIs DEF TypeInv, TypeOK
<1>2. CASE mem.owner[FirstPage] = runningID
  BY <1>2 DEF ClaimedMemory
<1>3. CASE mem.owner[FirstPage] # runningID
  BY <1>1, <1>3, ClaimTypes DEF ClaimedMemory
<1> QED
  BY <1>2, <1>3

\* The memory, the header and the account of a request for a system page.
LEMMA SystemMemory ==
  ASSUME TypeInv, NEW id \in Thread \cup {Nobody}
  PROVE  LET m == [mem EXCEPT !.owner[SystemPage] = id]
         IN  /\ IsMemory(m) /\ m.owner = [mem.owner EXCEPT ![SystemPage] = id]
             /\ m.remaining = mem.remaining /\ m.free = mem.free /\ m.next = mem.next
             /\ Addr(SystemPage) \in DOMAIN m.next
<1>1. IsMemory(mem) /\ SystemPage \in Page
  BY SystemPageIs DEF TypeInv
<1>2. Addr(SystemPage) \in DOMAIN mem.next
  BY <1>1 DEF IsMemory
<1> QED
  BY <1>1, <1>2, OwnedTypes

\* An account that is overdrawn stays so.
LEMMA DeficitStays ==
  ASSUME TypeInv, [Next]_vars, ~NoDeficit
  PROVE  ~NoDeficit'
<1>1. PICK p \in UserPage : ~ (mem.remaining[p] >= 0)
  BY DEF NoDeficit
<1>2. IsMemory(mem) /\ p \in Page /\ mem.remaining[p] \in Int
  BY Pages, MemoryFields DEF TypeInv
<1>3. mem.remaining[p] < 0
  BY <1>1, <1>2
<1>4. ASSUME mem'.remaining = mem.remaining PROVE mem'.remaining[p] < 0
  BY <1>3, <1>4
<1>5. ASSUME NEW t \in Thread, TakePage(t) PROVE mem'.remaining[p] < 0
  <2>1. page[t] \in Page /\ runningID \in Thread
    BY <1>5, Pages DEF TakePage, UsePage, ClaimPage, At, TypeInv, TypeOK
  <2>2. CASE UsePage(t)
    BY <1>4, <2>2 DEF UsePage, TakeChunk
  <2>3. CASE ClaimPage(t)
    <3> DEFINE q == page[t]
               m == [mem EXCEPT !.owner[q] = runningID, !.free = @ \ {Addr(q)}]
    <3>1. mem' = m
      BY <2>3 DEF ClaimPage, TakeChunk
    <3>2. m.remaining = mem.remaining
      BY <1>2, <2>1, ClaimTypes
    <3> HIDE DEF m
    <3> QED
      BY <1>4, <3>1, <3>2
  <2> QED
    BY <1>5, <2>2, <2>3 DEF TakePage
<1>6. ASSUME NEW t \in Thread, MemPush(t) PROVE mem'.remaining[p] < 0
  <2>1. page[t] \in Page /\ size[t] \in Nat
    <3>1. \A z \in Sizes : z \in Nat
      BY Sized
    <3>2. page[t] \in UserPage /\ size[t] \in Sizes \cup {0}
      BY <1>6 DEF MemPush, At, TypeInv, TypeOK
    <3> QED
      BY <3>1, <3>2, Pages
  <2>2. Push(t, ptr[t], size[t], page[t], mem, runningID)
    BY <1>6 DEF MemPush
  <2> QED
    BY <1>2, <1>3, <2>1, <2>2, PushDeficit
<1>7. ASSUME NEW id \in Thread \cup {Nobody}, NEW s \in Nat, SystemRequest(id, s)
      PROVE  mem'.remaining[p] < 0
  <2> DEFINE m == [mem EXCEPT !.owner[SystemPage] = id]
  <2>1. IsMemory(m) /\ m.remaining = mem.remaining
    BY SystemMemory
  <2>2. Push(id, Addr(SystemPage), s, SystemAccount, m, Main) /\ SystemAccount \in Page
    BY <1>7, SystemPageIs DEF SystemRequest
  <2> HIDE DEF m
  <2> QED
    BY <1>3, <2>1, <2>2, PushDeficit
<1>8. ASSUME initQueue \/ CreateThread PROVE mem'.remaining[p] < 0
  <2>1. PICK id \in Thread \cup {Nobody}, s \in Nat : SystemRequest(id, s)
    BY <1>8, RequestIs
  <2> QED
    BY <1>7, <2>1
<1>9. ASSUME UNCHANGED mem PROVE mem'.remaining[p] < 0
  BY <1>4, <1>9
<1>10. ASSUME Next PROVE mem'.remaining[p] < 0
  <2>1. ASSUME NEW t \in Thread, Malloc(t) \/ FindPage(t) \/ NoPageLeft(t)
        PROVE  UNCHANGED mem
    BY <2>1 DEF Malloc, FindPage, NoPageLeft
  <2>2. Switch => UNCHANGED mem
    BY DEF Switch
  <2> QED
    BY <1>5, <1>6, <1>8, <1>9, <1>10, <2>1, <2>2 DEF Next, TakePage
<1>12. mem'.remaining[p] < 0
  BY <1>9, <1>10 DEF vars
<1>11. ~ (mem'.remaining[p] >= 0)
  <2> DEFINE r == mem'.remaining[p]
  <2>1. r < 0
    BY <1>12
  <2>2. r \in Int
    <3>1. IsMemory(mem')
      BY NextTypes DEF TypeInv
    <3> QED
      BY <1>2, <3>1, MemoryFields
  <2> HIDE DEF r
  <2>3. ~ (r >= 0)
    BY <2>1, <2>2
  <2> QED
    BY <2>3 DEF r
<1> QED
  BY <1>11 DEF NoDeficit

-----------------------------------------------------------------------------
(* Steps that leave the memory alone. *)

LEMMA MainFirstKept ==
  ASSUME NEW b, MainFirst(b), mem'.owner[SYSPAGES] = mem.owner[SYSPAGES], blocks' = blocks,
         nodeID' = nodeID \/ \E c \in blocks : c.thread = Main
  PROVE  MainFirst(b)'
  BY DEF MainFirst

LEMMA BlocksKept ==
  ASSUME TypeInv, NEW b, NEW home, NEW end, NEW top, Blocks(b, home, end, top),
         mem' = mem, blocks' = blocks, process' = "up" => process = "up",
         nodeID' = nodeID \/ (nodeID' = nodeID + 1 /\ process' # "up")
  PROVE  Blocks(b, home, end, top)'
<1> SUFFICES ASSUME SystemPagesLeft'
             PROVE  /\ NoOverlap'
                    /\ \A c \in blocks : InSystem(c)' \/ InRun(c, b, home, end, top)
                    /\ process' = "up" =>
                         \A q \in 0 .. SYSPAGES - 1 : Addr(q) \in mem'.free <=> Used' <= q
  BY DEF Blocks, InRun, Live
<1>1. SystemPagesLeft
  BY Sized DEF SystemPagesLeft, TypeInv, TypeOK
<1>2. NoOverlap'
  BY <1>1 DEF Blocks, NoOverlap
<1>3. \A c \in blocks : InSystem(c)' \/ InRun(c, b, home, end, top)
  <2>1. \A c : InSystem(c)' <=> InSystem(c)
    BY DEF InSystem
  <2> QED
    BY <1>1, <2>1 DEF Blocks
<1>4. ASSUME process' = "up" PROVE \A q \in 0 .. SYSPAGES - 1 : Addr(q) \in mem'.free <=> Used' <= q
  <2>1. Used' = Used
    BY <1>4 DEF Used
  <2> QED
    BY <1>1, <1>4, <2>1 DEF Blocks
<1> QED
  BY <1>2, <1>3, <1>4

LEMMA Idle ==
  ASSUME TypeInv, InOrder, mem' = mem, blocks' = blocks, process' = "up" => process = "up",
         \/ nodeID' = nodeID
         \/ nodeID' = nodeID + 1 /\ process' # "up" /\ \E c \in blocks : c.thread = Main,
         \A t \in Thread : pc'[t] = "push" =>
           pc[t] = "push" /\ page'[t] = page[t] /\ ptr'[t] = ptr[t]
  PROVE  InOrder'
<1>1. SystemFresh'
  BY DEF InOrder, SystemFresh
<1>2. ASSUME NEW b, NEW home, NEW end, NEW top, Good(b, home, end, top)
      PROVE  Good(b, home, end, top)'
  <2>1. MainFirst(b)'
    BY <1>2, MainFirstKept DEF Good
  <2>2. Blocks(b, home, end, top)'
    BY <1>2, BlocksKept DEF Good
  <2>3. Below(mem', b, home, end, top) /\ Fresh(mem', b, home, end)
    BY <1>2 DEF Good
  <2>4. \A t \in Thread : pc'[t] = "push" =>
          home[t] < end[t] /\ page'[t] = home[t] /\ ptr'[t] = top[t]
    BY <1>2 DEF Good
  <2> QED
    BY <2>1, <2>2, <2>3, <2>4 DEF Good
<1>3. ASSUME NEW b, NEW home, NEW end, NEW top, Spoilt(b, home, end, top)
      PROVE  Spoilt(b, home, end, top)'
  <2>1. MainFirst(b)'
    BY <1>3, MainFirstKept DEF Spoilt
  <2>2. Below(mem', b, home, end, top) /\ Fallen(mem', b, home, end, top)
    BY <1>3 DEF Spoilt
  <2>3. Local(b, home, end, top)'
    BY <1>3 DEF Spoilt, Local
  <2> QED
    BY <2>1, <2>2, <2>3 DEF Spoilt
<1> QED
  BY <1>1, <1>2, <1>3 DEF InOrder

-----------------------------------------------------------------------------
(* FindPage, UsePage, ClaimPage *)

\* Below b the first page that a thread finds is where its chain begins.
LEMMA FirstIsHome ==
  ASSUME TypeInv, Candidates # {}, NEW b, NEW home, NEW end, NEW top,
         Below(mem, b, home, end, top)
  PROVE  /\ FirstPage < b =>
              /\ Live(b, home, end, runningID) /\ FirstPage = home[runningID]
              /\ ClaimedMemory = mem
         /\ Live(b, home, end, runningID) => FirstPage < b
<1> DEFINE t == runningID
<1>1. t \in Thread /\ IsMemory(mem)
  BY DEF TypeInv, TypeOK
<1>2. /\ FirstPage \in Nat /\ FirstPage \in UserPage
      /\ mem.owner[FirstPage] = t \/ Addr(FirstPage) \in mem.free
      /\ \A p \in UserPage : mem.owner[p] = t \/ Addr(p) \in mem.free => FirstPage <= p
  BY FirstPageIs, FreeIs DEF Candidates
<1>3. /\ b \in Nat /\ home \in [Thread -> SYSPAGES .. TOTALPAGES]
      /\ end \in [Thread -> SYSPAGES .. TOTALPAGES] /\ Runs(mem, b, home, end)
  BY Sized DEF Below
<1>4. ASSUME Live(b, home, end, t) PROVE FirstPage <= home[t] /\ FirstPage < b
  <2>1. home[t] \in UserPage /\ mem.owner[home[t]] = t /\ home[t] < b /\ home[t] \in Nat
    BY <1>1, <1>4, LiveIs
  <2>2. FirstPage <= home[t]
    BY <1>2, <2>1
  <2> QED
    BY <1>2, <1>3, <2>1, <2>2
<1>5. ASSUME FirstPage < b
      PROVE  Live(b, home, end, t) /\ FirstPage = home[t] /\ ClaimedMemory = mem
  <2> DEFINE f == FirstPage
  <2> HIDE DEF f
  <2>1. f \in SYSPAGES .. b - 1 /\ f \in Nat /\ f < b
    BY <1>2, <1>3, <1>5, Sized DEF UserPage, f
  <2>2. Addr(f) \notin mem.free
    BY <1>3, <2>1 DEF Runs
  <2>3. mem.owner[f] = t
    BY <1>2, <2>2 DEF f
  <2>4. home[t] <= f /\ f < end[t] /\ home[t] \in Nat /\ end[t] \in Nat
    BY <1>1, <1>3, <2>1, <2>3, Sized DEF Runs
  <2>5. Live(b, home, end, t)
    BY <1>3, <2>1, <2>4 DEF Live
  <2>6. f = home[t]
    BY <1>4, <2>1, <2>4, <2>5 DEF f
  <2>7. ClaimedMemory = mem
    BY <2>3 DEF ClaimedMemory, f
  <2> QED
    BY <2>5, <2>6, <2>7 DEF f
<1> QED
  BY <1>4, <1>5

\* What claiming a page changes.
LEMMA ClaimedIs ==
  ASSUME TypeInv, Candidates # {}
  PROVE  /\ IsMemory(ClaimedMemory)
         /\ ClaimedMemory.remaining = mem.remaining /\ ClaimedMemory.next = mem.next
         /\ \A p \in Page : p # FirstPage => ClaimedMemory.owner[p] = mem.owner[p]
         /\ ClaimedMemory.owner[FirstPage] = runningID
         /\ \A h : h # Addr(FirstPage) => (h \in ClaimedMemory.free <=> h \in mem.free)
         /\ ClaimedMemory.free \subseteq mem.free
         /\ mem.owner[FirstPage] # runningID => Addr(FirstPage) \notin ClaimedMemory.free
<1>1. IsMemory(mem) /\ runningID \in Thread /\ FirstPage \in Page
      /\ mem.owner \in [Page -> Thread \cup {Nobody}]
  BY FirstPageIs, MemoryFields DEF TypeInv, TypeOK
<1>2. CASE mem.owner[FirstPage] = runningID
  BY <1>1, <1>2 DEF ClaimedMemory
<1>3. CASE mem.owner[FirstPage] # runningID
  <2> DEFINE x == [mem EXCEPT !.owner[FirstPage] = runningID, !.free = @ \ {Addr(FirstPage)}]
  <2>1. /\ IsMemory(x) /\ x.owner = [mem.owner EXCEPT ![FirstPage] = runningID]
        /\ x.remaining = mem.remaining /\ x.free = mem.free \ {Addr(FirstPage)}
        /\ x.next = mem.next
    <3> DEFINE f == FirstPage
               id == runningID
    <3>1. IsMemory(mem) /\ f \in Page /\ id \in Thread
      BY <1>1
    <3> HIDE DEF f, id
    <3> DEFINE y == [mem EXCEPT !.owner[f] = id, !.free = @ \ {Addr(f)}]
    <3>2. /\ IsMemory(y) /\ y.owner = [mem.owner EXCEPT ![f] = id]
          /\ y.remaining = mem.remaining /\ y.free = mem.free \ {Addr(f)}
          /\ y.next = mem.next
      BY <3>1 DEF IsMemory, Memory
    <3>3. x = y
      BY DEF f, id
    <3> HIDE DEF x, y
    <3> QED
      BY <3>2, <3>3 DEF f, id
  <2>2. ClaimedMemory = x
    BY <1>3 DEF ClaimedMemory
  <2> HIDE DEF x
  <2> QED
    BY <1>1, <2>1, <2>2
<1> QED
  BY <1>2, <1>3

LEMMA FindIs ==
  ASSUME TypeInv, Calls, NEW t \in Thread, TakePage(t)
  PROVE  /\ Candidates # {} /\ currThread = t /\ runningID = t
         /\ mem' = ClaimedMemory /\ IsMemory(mem')
         /\ page'[t] = FirstPage /\ ptr'[t] = LastChunk(mem', Addr(FirstPage))
         /\ \A u \in Thread : pc'[u] = "push" => u = t
         /\ UNCHANGED << blocks, nodeID, process >>
<1>0. PICK m : /\ currThread = t /\ TakeChunk(t, m)
               /\ \/ pc[t] = "use" /\ m = mem
                  \/ /\ pc[t] = "claim"
                     /\ m = [mem EXCEPT !.owner[page[t]] = runningID,
                                        !.free = @ \ {Addr(page[t])}]
  BY DEF TakePage, UsePage, ClaimPage, At
<1>6. /\ Candidates # {} /\ page[t] = FirstPage
      /\ pc[t] = "use" <=> mem.owner[FirstPage] = runningID
  BY <1>0 DEF Calls
<1>7. m = ClaimedMemory
  BY <1>0, <1>6 DEF ClaimedMemory
<1>1. /\ Candidates # {} /\ currThread = t /\ pc[t] # "user" /\ mem' = ClaimedMemory
      /\ page' = page /\ page[t] = FirstPage
      /\ ptr' = [ptr EXCEPT ![t] = LastChunk(ClaimedMemory, Addr(FirstPage))]
      /\ pc' = [pc EXCEPT ![t] = "push"] /\ UNCHANGED << blocks, nodeID, process >>
  BY <1>0, <1>6, <1>7 DEF TakeChunk
<1>2. runningID = t /\ \A u \in Thread : u # t => pc[u] = "user"
  BY <1>1 DEF Calls, TypeInv, TypeOK
<1>3. IsMemory(mem')
  BY <1>1, ClaimedTypes
<1>4. page'[t] = FirstPage /\ ptr'[t] = LastChunk(mem', Addr(FirstPage))
  BY <1>1 DEF TypeInv, TypeOK
<1>5. \A u \in Thread : pc'[u] = "push" => u = t
  BY <1>1, <1>2 DEF TypeInv, TypeOK
<1> QED
  BY <1>1, <1>2, <1>3, <1>4, <1>5

LEMMA FindFresh ==
  ASSUME TypeInv, Calls, SystemFresh, NEW t \in Thread, TakePage(t)
  PROVE  SystemFresh'
<1>1. mem'.remaining = mem.remaining /\ mem'.free \subseteq mem.free
  BY FindIs, ClaimedIs
<1> QED
  BY <1>1 DEF SystemFresh

LEMMA FindSpoilt ==
  ASSUME TypeInv, Calls, NEW t \in Thread, TakePage(t),
         NEW b, NEW home, NEW end, NEW top, Spoilt(b, home, end, top)
  PROVE  Spoilt(b, home, end, top)'
<1>1. /\ Below(mem, b, home, end, top) /\ Fallen(mem, b, home, end, top) /\ MainFirst(b)
  BY DEF Spoilt
<1>2. /\ Candidates # {} /\ runningID = t
      /\ mem' = ClaimedMemory /\ IsMemory(mem')
      /\ page'[t] = FirstPage /\ ptr'[t] = LastChunk(mem', Addr(FirstPage))
      /\ \A u \in Thread : pc'[u] = "push" => u = t
      /\ UNCHANGED << blocks, nodeID, process >>
  BY FindIs
<1>3. IsMemory(mem)
  BY DEF TypeInv
<1>4. PICK o \in Thread : /\ home[o] < b /\ b < end[o] /\ top[o] \notin mem.free
                          /\ mem.next[top[o]] = Addr(b)
  BY <1>1 DEF Fallen
<1>5. /\ b \in Nat /\ b \in SYSPAGES .. TOTALPAGES /\ home[o] \in SYSPAGES .. TOTALPAGES
      /\ end[o] \in SYSPAGES .. TOTALPAGES /\ Addr(b) \in Nat
      /\ Runs(mem, b, home, end) /\ Climbs(mem)
  BY <1>1, Sized, AddrIsNat DEF Below
<1> DEFINE f == FirstPage
<1> HIDE DEF f
<1>6. f \in Nat /\ f \in Page /\ Addr(f) \in DOMAIN mem'.next /\ SYSPAGES <= f
  BY <1>2, FirstPageIs, Sized DEF f, IsMemory, UserPage
<1>7. SYSPAGES < b
  BY <1>4, <1>5, Sized
<1>8. CASE f < b
  <2>1. Live(b, home, end, t) /\ f = home[t] /\ mem' = mem
    BY <1>1, <1>2, <1>8, FirstIsHome DEF f
  <2>2. LeadsTo(mem, f, top[t]) /\ top[t] \in Nat /\ end[t] \in Nat /\ home[t] \in Nat
        /\ top[t] < Addr(b) /\ home[t] < b
    BY <1>1, <1>3, <2>1, LiveIs
  <2>3. Local(b, home, end, top)'
    <3>1. CASE end[t] <= b
      <4>1. mem.next[top[t]] = NoNext
        BY <1>1, <2>1, <3>1 DEF Below, Chains
      <4>2. ptr'[t] = top[t]
        BY <1>2, <1>3, <1>5, <1>6, <2>1, <2>2, <4>1, ChainEnds DEF f
      <4> QED
        BY <1>2, <2>1, <3>1, <4>2 DEF Local, f
    <3>2. CASE b < end[t]
      <4>1. b - 1 \in SYSPAGES .. b - 1 /\ home[o] <= b - 1 /\ b - 1 < end[o]
            /\ home[t] <= b - 1 /\ b - 1 < end[t]
        BY <1>4, <1>5, <1>7, <2>1, <2>2, <3>2, Sized DEF Live
      <4>2. o = t
        BY <1>5, <4>1 DEF Runs
      <4>3. Addr(b) <= ptr'[t]
        <5>1. \E p \in Page, last \in Nat :
              /\ Addr(f) = Addr(p) /\ LeadsTo(mem, p, last)
              /\ last < Addr(b) /\ last \notin mem.free /\ mem.next[last] = Addr(b)
          BY <1>4, <1>6, <2>2, <4>2
        <5>2. Addr(f) \in DOMAIN mem.next
          BY <1>6, <2>1
        <5>3. Addr(b) <= LastChunk(mem, Addr(f))
          BY <1>3, <1>5, <5>1, <5>2, ChainPasses
        <5> QED
          BY <1>2, <2>1, <5>3 DEF f
      <4> QED
        BY <1>2, <2>1, <2>2, <3>2, <4>3 DEF Local, f
    <3> QED
      BY <1>5, <2>2, <3>1, <3>2
  <2>4. MainFirst(b)'
    BY <1>1, <1>2, <2>1, MainFirstKept
  <2> QED
    BY <1>1, <2>1, <2>3, <2>4 DEF Spoilt
<1>9. CASE b <= f
  <2>1. /\ mem'.remaining = mem.remaining /\ mem'.next = mem.next
        /\ \A p \in Page : p # f => mem'.owner[p] = mem.owner[p]
        /\ \A h : h # Addr(f) => (h \in mem'.free <=> h \in mem.free)
        /\ mem'.free \subseteq mem.free
    BY <1>2, ClaimedIs DEF f
  <2>2. Addr(b) <= Addr(f) /\ Addr(f) \in Nat
    BY <1>5, <1>6, <1>9, AddrOrder
  <2>3. SameBelow(mem, mem', b)
    <3>1. \A p \in SYSPAGES .. b - 1 : p \in Page /\ p # f
      BY <1>5, <1>6, <1>9, Sized DEF Page
    <3>2. \A h \in Nat : h < Addr(b) => h # Addr(f)
      BY <1>5, <2>2
    <3> QED
      BY <2>1, <3>1, <3>2 DEF SameBelow
  <2>4. Climbs(mem')
    BY <1>5, <2>1 DEF Climbs
  <2>5. \A u \in Thread : Live(b, home, end, u) /\ end[u] <= b =>
          mem'.remaining[home[u]] <= mem.remaining[home[u]]
    <3> TAKE u \in Thread
    <3> HAVE Live(b, home, end, u) /\ end[u] <= b
    <3>1. home[u] \in Page
      BY <1>1, <1>3, LiveIs
    <3>2. mem.remaining[home[u]] \in Int
      BY <1>3, <3>1, MemoryFields
    <3> QED
      BY <2>1, <3>2
  <2>6. Below(mem', b, home, end, top)
    BY <1>1, <1>2, <1>3, <2>3, <2>4, <2>5, BelowSame
  <2>7. Fallen(mem', b, home, end, top)
    BY <1>1, <2>1 DEF Fallen
  <2>8. Local(b, home, end, top)'
    <3>1. Addr(b) <= LastChunk(mem', Addr(f))
      BY <1>2, <1>5, <1>6, <2>2, <2>4, ChainPasses
    <3> QED
      BY <1>2, <1>9, <3>1 DEF Local, f
  <2>9. MainFirst(b)'
    <3>1. mem'.owner[SYSPAGES] = mem.owner[SYSPAGES]
      BY <1>5, <1>6, <1>7, <1>9, <2>1, Pages, Sized
    <3> QED
      BY <1>1, <1>2, <3>1, MainFirstKept
  <2> QED
    BY <2>6, <2>7, <2>8, <2>9 DEF Spoilt
<1> QED
  BY <1>5, <1>6, <1>8, <1>9

\* A thread without pages finds the first page that nobody has ever had.
LEMMA FindNew ==
  ASSUME TypeInv, Calls, NEW t \in Thread, TakePage(t),
         NEW b, NEW home, NEW end, NEW top,
         Below(mem, b, home, end, top), Fresh(mem, b, home, end), b <= FirstPage
  PROVE  /\ FirstPage = b /\ b \in UserPage /\ home[t] >= end[t]
         /\ mem.owner[b] = Nobody /\ ptr'[t] = Addr(b)
<1>1. /\ Candidates # {} /\ runningID = t
      /\ mem' = ClaimedMemory /\ IsMemory(mem')
      /\ page'[t] = FirstPage /\ ptr'[t] = LastChunk(mem', Addr(FirstPage))
  BY FindIs
<1>2. /\ FirstPage \in Nat /\ FirstPage \in UserPage
      /\ \A p \in UserPage : mem.owner[p] = t \/ Addr(p) \in mem.free => FirstPage <= p
  BY <1>1, FirstPageIs
<1>3. /\ b \in Nat /\ b \in SYSPAGES .. TOTALPAGES /\ home[t] \in SYSPAGES .. TOTALPAGES
      /\ end[t] \in SYSPAGES .. TOTALPAGES /\ Climbs(mem)
  BY Sized DEF Below
<1>4. b \in UserPage /\ b \in b .. TOTALPAGES - 1 /\ b \in Page
  BY <1>2, <1>3, Sized DEF UserPage, Page
<1>5. mem.owner[b] = Nobody /\ Addr(b) \in mem.free /\ mem.next[Addr(b)] = NoNext
  BY <1>4 DEF Fresh
<1>6. FirstPage = b
  <2>1. FirstPage <= b
    BY <1>2, <1>4, <1>5
  <2> QED
    BY <1>2, <1>3, <2>1
<1>7. home[t] >= end[t]
  <2> SUFFICES ASSUME home[t] < end[t] PROVE FALSE
    BY <1>3, Sized
  <2>1. end[t] <= b
    BY DEF Fresh
  <2>2. Live(b, home, end, t)
    BY <1>3, <2>1, Sized DEF Live
  <2>3. FirstPage < b
    BY <1>1, <2>2, FirstIsHome
  <2> QED
    BY <1>3, <1>6, <2>3
<1>8. ptr'[t] = Addr(b)
  <2>1. mem'.next = mem.next
    BY <1>1, ClaimedIs
  <2>2. Addr(b) \in DOMAIN mem'.next /\ DOMAIN mem'.next \subseteq Nat
    BY <1>1, <1>4, MemoryFields DEF IsMemory
  <2>3. LeadsTo(mem', b, Addr(b))
    <3>1. Addr(b) \in ChunksOf(mem', b, Addr(b))
      BY <2>2 DEF ChunksOf
    <3>2. \A k \in ChunksOf(mem', b, Addr(b)) : k = Addr(b)
      BY <2>2 DEF ChunksOf
    <3> QED
      BY <3>1, <3>2 DEF LeadsTo
  <2>4. Climbs(mem')
    BY <1>3, <2>1 DEF Climbs
  <2>5. mem'.next[Addr(b)] = NoNext
    BY <1>5, <2>1
  <2>6. LastChunk(mem', Addr(b)) = Addr(b)
    BY <1>1, <1>4, <2>3, <2>4, <2>5, ChainEnds
  <2> QED
    BY <1>1, <1>6, <2>6
<1> QED
  BY <1>4, <1>5, <1>6, <1>7, <1>8

\* A page for a thread that has none.
Housed(x, b, home, end, top, t, homes, ends, tops) ==
  /\ Below(x, b + 1, homes, ends, tops) /\ Fresh(x, b + 1, homes, ends)
  /\ homes[t] = b /\ ends[t] = b + 1 /\ tops[t] = Addr(b)
  /\ \A u \in Thread : Live(b, home, end, u) =>
       /\ u # t /\ Live(b + 1, homes, ends, u)
       /\ homes[u] = home[u] /\ tops[u] = top[u]

LEMMA NewHome ==
  ASSUME TypeInv, Calls, NEW t \in Thread, TakePage(t),
         NEW b, NEW home, NEW end, NEW top,
         Below(mem, b, home, end, top), Fresh(mem, b, home, end), b <= FirstPage,
         NEW homes, NEW ends, NEW tops,
         homes = [home EXCEPT ![t] = b], ends = [end EXCEPT ![t] = b + 1],
         tops = [top EXCEPT ![t] = Addr(b)]
  PROVE  Housed(mem', b, home, end, top, t, homes, ends, tops)
<1>1. /\ Candidates # {} /\ runningID = t /\ mem' = ClaimedMemory /\ IsMemory(mem')
  BY FindIs
<1>2. FirstPage = b /\ b \in UserPage /\ home[t] >= end[t] /\ mem.owner[b] = Nobody
  BY FindNew
<1>3. /\ b \in SYSPAGES .. TOTALPAGES /\ home \in [Thread -> SYSPAGES .. TOTALPAGES]
      /\ end \in [Thread -> SYSPAGES .. TOTALPAGES] /\ top \in [Thread -> Address]
      /\ Runs(mem, b, home, end) /\ Chains(mem, b, home, end, top) /\ Climbs(mem)
  BY DEF Below
<1>4. /\ b \in Nat /\ b \in Page /\ SYSPAGES <= b /\ b < TOTALPAGES /\ TOTALPAGES \in Nat
      /\ b + 1 \in SYSPAGES .. TOTALPAGES
  BY <1>2, Sized DEF UserPage, Page
<1>5. /\ mem'.remaining = mem.remaining /\ mem'.next = mem.next
      /\ \A p \in Page : p # b => mem'.owner[p] = mem.owner[p]
      /\ mem'.owner[b] = t
      /\ \A h : h # Addr(b) => (h \in mem'.free <=> h \in mem.free)
      /\ mem'.free \subseteq mem.free
  BY <1>1, <1>2, ClaimedIs
<1>6. Addr(b) \notin mem'.free
  <2>1. t # Nobody
    BY Sized DEF Thread, Nobody
  <2> QED
    BY <1>1, <1>2, <2>1, ClaimedIs
<1>7. /\ Addr(b + 1) = Addr(b) + PAGE_SIZE /\ Addr(b) \in Nat /\ Addr(b) \in DOMAIN mem.next
      /\ Addr(b) \in Address /\ Addr(b + 1) \in Nat
  <2>1. Addr(b) \in DOMAIN mem.next /\ Addr(b) \in Address
    BY <1>4 DEF TypeInv, IsMemory
  <2> QED
    BY <1>4, <2>1, AddrNext, AddrIsNat, Sized
<1>8. /\ homes \in [Thread -> SYSPAGES .. TOTALPAGES] /\ homes[t] = b
      /\ ends \in [Thread -> SYSPAGES .. TOTALPAGES] /\ ends[t] = b + 1
      /\ tops \in [Thread -> Address] /\ tops[t] = Addr(b)
      /\ \A u \in Thread : u # t => homes[u] = home[u] /\ ends[u] = end[u] /\ tops[u] = top[u]
  BY <1>3, <1>4, <1>7
<1>9. \A u \in Thread : home[u] < end[u] => u # t /\ end[u] <= b /\ Live(b, home, end, u)
  <2> TAKE u \in Thread
  <2> HAVE home[u] < end[u]
  <2>1. end[u] <= b /\ home[u] \in Nat /\ end[u] \in Nat
    BY <1>3, Sized DEF Fresh
  <2> QED
    BY <1>2, <1>4, <2>1 DEF Live
<1>10. \A u \in Thread : Live(b, home, end, u) =>
              /\ u # t /\ Live(b + 1, homes, ends, u)
              /\ homes[u] = home[u] /\ tops[u] = top[u]
  <2> TAKE u \in Thread
  <2> HAVE Live(b, home, end, u)
  <2>1. u # t /\ home[u] \in SYSPAGES .. TOTALPAGES
    BY <1>3, <1>9 DEF Live
  <2> QED
    BY <1>4, <1>8, <2>1, Sized DEF Live
<1>11. Runs(mem', b + 1, homes, ends)
  <2>1. ASSUME NEW p \in SYSPAGES .. (b + 1) - 1
        PROVE  /\ mem'.owner[p] \in Thread /\ homes[mem'.owner[p]] <= p
               /\ p < ends[mem'.owner[p]] /\ Addr(p) \notin mem'.free
    <3>0. p \in Page /\ p \in Nat /\ p <= b
      BY <1>4, Sized DEF Page
    <3>1. CASE p = b
      BY <1>4, <1>5, <1>6, <1>8, <3>1
    <3>2. CASE p # b
      <4>1. p \in SYSPAGES .. b - 1
        BY <1>4, <3>0, <3>2
      <4>2. /\ mem.owner[p] \in Thread /\ home[mem.owner[p]] <= p /\ p < end[mem.owner[p]]
            /\ Addr(p) \notin mem.free
        BY <1>3, <4>1 DEF Runs
      <4>3. mem'.owner[p] = mem.owner[p] /\ Addr(p) \notin mem'.free
        BY <1>5, <3>0, <3>2, <4>2
      <4>4. mem.owner[p] # t
        BY <1>2, <1>3, <3>0, <4>2, Sized
      <4> QED
        BY <1>8, <4>2, <4>3, <4>4
    <3> QED
      BY <3>1, <3>2
  <2>2. ASSUME NEW u \in Thread, NEW p \in SYSPAGES .. (b + 1) - 1, homes[u] <= p, p < ends[u]
        PROVE  mem'.owner[p] = u
    <3>0. p \in Page /\ p \in Nat /\ p <= b
      BY <1>4, Sized DEF Page
    <3>1. CASE u = t
      BY <1>4, <1>5, <1>8, <2>2, <3>0, <3>1
    <3>2. CASE u # t
      <4>1. home[u] <= p /\ p < end[u] /\ home[u] \in Nat /\ end[u] \in Nat
        BY <1>3, <1>8, <2>2, <3>2, Sized
      <4>2. end[u] <= b
        BY <1>9, <3>0, <4>1
      <4>3. p \in SYSPAGES .. b - 1 /\ p # b
        BY <1>4, <3>0, <4>1, <4>2
      <4> QED
        BY <1>3, <1>5, <3>0, <4>1, <4>3 DEF Runs
    <3> QED
      BY <3>1, <3>2
  <2> QED
    BY <2>1, <2>2 DEF Runs
<1>12. ASSUME NEW u \in Thread, Live(b + 1, homes, ends, u)
       PROVE  /\ LeadsTo(mem', homes[u], tops[u]) /\ tops[u] < Addr(ends[u]) /\ tops[u] < Addr(b + 1)
              /\ ends[u] <= b + 1 =>
                   /\ mem'.next[tops[u]] = NoNext
                   /\ mem'.remaining[homes[u]] <= Addr(ends[u]) - (tops[u] + DATA)
  <2>1. CASE u = t
    <3>1. LeadsTo(mem', b, Addr(b))
      <4>1. Addr(b) \in ChunksOf(mem', b, Addr(b))
        BY <1>5, <1>7 DEF ChunksOf
      <4>2. \A k \in ChunksOf(mem', b, Addr(b)) : k = Addr(b)
        BY <1>1, <1>7, MemoryFields DEF ChunksOf
      <4> QED
        BY <4>1, <4>2 DEF LeadsTo
    <3>2. mem.next[Addr(b)] = NoNext /\ mem.remaining[b] = PAGE_SIZE - HEADER
      BY <1>4 DEF Fresh
    <3>3. PAGE_SIZE - HEADER <= Addr(b + 1) - (Addr(b) + DATA) /\ Addr(b) < Addr(b + 1)
      BY <1>7, Sized
    <3> QED
      BY <1>5, <1>8, <2>1, <3>1, <3>2, <3>3
  <2>2. CASE u # t
    <3>1. home[u] < end[u] /\ homes[u] = home[u] /\ ends[u] = end[u] /\ tops[u] = top[u]
      BY <1>8, <1>12, <2>2 DEF Live
    <3>2. Live(b, home, end, u) /\ end[u] <= b
      BY <1>9, <3>1
    <3>3. /\ LeadsTo(mem, home[u], top[u]) /\ top[u] < Addr(end[u]) /\ top[u] < Addr(b)
          /\ mem.next[top[u]] = NoNext
          /\ mem.remaining[home[u]] <= Addr(end[u]) - (top[u] + DATA)
      BY <1>3, <3>2 DEF Chains
    <3>4. LeadsTo(mem', home[u], top[u])
      BY <1>5, <3>3 DEF LeadsTo, ChunksOf
    <3>5. top[u] < Addr(b + 1)
      <4>1. top[u] \in Nat
        BY <3>2, LiveIs DEF TypeInv
      <4> QED
        BY <1>7, <3>3, <4>1, Sized
    <3> QED
      BY <1>5, <3>1, <3>3, <3>4, <3>5
  <2> QED
    BY <2>1, <2>2
<1>13. ASSUME NEW k \in DOMAIN mem'.next, Addr(SYSPAGES) <= k, k < Addr(b + 1), ~IsPageAddr(k)
       PROVE  \E u \in Thread : Live(b + 1, homes, ends, u) /\ Addr(homes[u]) < k /\ k <= tops[u]
  <2>1. k \in DOMAIN mem.next /\ k \in Nat
    BY <1>1, <1>5, MemoryFields
  <2>2. k < Addr(b)
    <3>1. ~ (Addr(b) <= k)
      BY <1>13, <2>1 DEF Fresh
    <3> QED
      BY <1>7, <2>1, <3>1
  <2>3. PICK u \in Thread : Live(b, home, end, u) /\ Addr(home[u]) < k /\ k <= top[u]
    BY <1>3, <1>13, <2>1, <2>2 DEF Chains
  <2> QED
    BY <1>10, <2>3
<1>14. Below(mem', b + 1, homes, ends, tops)
  <2>1. Chains(mem', b + 1, homes, ends, tops)
    BY <1>12, <1>13 DEF Chains
  <2>2. Climbs(mem')
    BY <1>3, <1>5 DEF Climbs
  <2> QED
    BY <1>4, <1>8, <1>11, <2>1, <2>2 DEF Below
<1>15. Fresh(mem', b + 1, homes, ends)
  <2>1. \A u \in Thread : homes[u] < ends[u] => ends[u] <= b + 1
    <3> TAKE u \in Thread
    <3> HAVE homes[u] < ends[u]
    <3>1. CASE u = t
      BY <1>4, <1>8, <3>1
    <3>2. CASE u # t
      <4>1. end[u] <= b /\ end[u] \in Nat /\ ends[u] = end[u]
        BY <1>3, <1>8, <1>9, <3>2, Sized
      <4> QED
        BY <1>4, <4>1
    <3> QED
      BY <3>1, <3>2
  <2>2. ASSUME NEW p \in b + 1 .. TOTALPAGES - 1
        PROVE  /\ mem'.owner[p] = Nobody /\ Addr(p) \in mem'.free
               /\ mem'.remaining[p] = PAGE_SIZE - HEADER /\ mem'.next[Addr(p)] = NoNext
    <3>1. p \in Page /\ p \in Nat /\ p # b /\ p \in b .. TOTALPAGES - 1
      BY <1>4, Sized DEF Page
    <3>2. Addr(p) # Addr(b)
      BY <1>4, <3>1, AddrOrder
    <3>3. /\ mem.owner[p] = Nobody /\ Addr(p) \in mem.free
          /\ mem.remaining[p] = PAGE_SIZE - HEADER /\ mem.next[Addr(p)] = NoNext
      BY <3>1 DEF Fresh
    <3> QED
      BY <1>5, <3>1, <3>2, <3>3
  <2>3. \A k \in DOMAIN mem'.next : Addr(b + 1) <= k => IsPageAddr(k)
    <3> TAKE k \in DOMAIN mem'.next
    <3> HAVE Addr(b + 1) <= k
    <3>1. k \in DOMAIN mem.next /\ k \in Nat
      BY <1>1, <1>5, MemoryFields
    <3>2. Addr(b) <= k
      BY <1>7, <3>1, Sized
    <3> QED
      BY <3>1, <3>2 DEF Fresh
  <2>4. \A k \in DOMAIN mem'.next : ~IsPageAddr(mem'.next[k])
    BY <1>5 DEF Fresh
  <2> QED
    BY <2>1, <2>2, <2>3, <2>4 DEF Fresh
<1> QED
  BY <1>8, <1>10, <1>14, <1>15 DEF Housed

\* The blocks are where they were.
LEMMA FindBlocks ==
  ASSUME TypeInv, Calls, NEW t \in Thread, TakePage(t),
         NEW b, NEW home, NEW end, NEW top, Blocks(b, home, end, top),
         NEW upTo, NEW homes, NEW ends, NEW tops,
         \A u \in Thread : Live(b, home, end, u) =>
           Live(upTo, homes, ends, u) /\ homes[u] = home[u] /\ tops[u] = top[u]
  PROVE  Blocks(upTo, homes, ends, tops)'
<1>1. /\ Candidates # {} /\ mem' = ClaimedMemory /\ UNCHANGED << blocks, nodeID, process >>
  BY FindIs
<1>2. FirstPage \in Nat /\ SYSPAGES <= FirstPage
  BY <1>1, FirstPageIs, Sized DEF UserPage
<1>3. \A q \in 0 .. SYSPAGES - 1 : Addr(q) \in mem'.free <=> Addr(q) \in mem.free
  <2> TAKE q \in 0 .. SYSPAGES - 1
  <2>1. q \in Nat /\ q # FirstPage
    BY <1>2, Sized
  <2>2. Addr(q) # Addr(FirstPage)
    BY <1>2, <2>1, AddrOrder
  <2> QED
    BY <1>1, <2>2, ClaimedIs
<1> SUFFICES ASSUME SystemPagesLeft'
             PROVE  /\ NoOverlap'
                    /\ \A c \in blocks : InSystem(c)' \/ InRun(c, upTo, homes, ends, tops)
                    /\ process' = "up" =>
                         \A q \in 0 .. SYSPAGES - 1 : Addr(q) \in mem'.free <=> Used' <= q
  BY <1>1 DEF Blocks, InRun, Live
<1>4. SystemPagesLeft
  BY <1>1 DEF SystemPagesLeft
<1>5. NoOverlap'
  BY <1>1, <1>4 DEF Blocks, NoOverlap
<1>6. ASSUME NEW c \in blocks
      PROVE  InSystem(c)' \/ InRun(c, upTo, homes, ends, tops)
  <2>1. CASE InSystem(c)
    BY <1>3, <2>1 DEF InSystem
  <2>2. CASE InRun(c, b, home, end, top)
    BY <2>2 DEF InRun
  <2> QED
    BY <1>4, <2>1, <2>2 DEF Blocks
<1>7. ASSUME process' = "up" PROVE \A q \in 0 .. SYSPAGES - 1 : Addr(q) \in mem'.free <=> Used' <= q
  <2>1. Used' = Used
    BY <1>1 DEF Used
  <2> QED
    BY <1>1, <1>3, <1>4, <1>7, <2>1 DEF Blocks
<1> QED
  BY <1>5, <1>6, <1>7

LEMMA FindGood ==
  ASSUME TypeInv, CallsInv, NEW t \in Thread, TakePage(t),
         NEW b, NEW home, NEW end, NEW top, Good(b, home, end, top)
  PROVE  \E upTo, homes, ends, tops : Good(upTo, homes, ends, tops)'
<1>1. /\ Below(mem, b, home, end, top) /\ Fresh(mem, b, home, end) /\ MainFirst(b)
      /\ Blocks(b, home, end, top)
  BY DEF Good
<1>2. /\ Candidates # {} /\ runningID = t /\ currThread = t
      /\ mem' = ClaimedMemory /\ IsMemory(mem')
      /\ page'[t] = FirstPage /\ ptr'[t] = LastChunk(mem', Addr(FirstPage))
      /\ \A u \in Thread : pc'[u] = "push" => u = t
      /\ UNCHANGED << blocks, nodeID, process >>
  BY FindIs DEF CallsInv
<1>3. IsMemory(mem) /\ b \in Nat /\ b \in SYSPAGES .. TOTALPAGES /\ Climbs(mem)
  BY <1>1, Sized DEF TypeInv, Below
<1>4. FirstPage \in Nat /\ FirstPage \in Page
  BY <1>2, FirstPageIs
<1>5. CASE FirstPage < b
  <2>1. Live(b, home, end, t) /\ FirstPage = home[t] /\ mem' = mem
    BY <1>1, <1>2, <1>5, FirstIsHome
  <2>2. end[t] <= b
    BY <1>1, <2>1 DEF Fresh, Live
  <2>3. LeadsTo(mem, FirstPage, top[t]) /\ mem.next[top[t]] = NoNext
    BY <1>1, <2>1, <2>2 DEF Below, Chains
  <2>4. ptr'[t] = top[t]
    BY <1>2, <1>3, <1>4, <2>1, <2>3, ChainEnds
  <2>5. Blocks(b, home, end, top)'
    BY <1>1, FindBlocks DEF CallsInv
  <2>6. MainFirst(b)'
    BY <1>1, <1>2, <2>1, MainFirstKept
  <2>7. home[t] < end[t]
    BY <2>1 DEF Live
  <2>8. Good(b, home, end, top)'
    BY <1>1, <1>2, <2>1, <2>4, <2>5, <2>6, <2>7 DEF Good
  <2> QED
    BY <2>8
<1>6. CASE b <= FirstPage
  <2>1. FirstPage = b /\ b \in UserPage /\ ptr'[t] = Addr(b)
    BY <1>1, <1>6, FindNew DEF CallsInv
  <2> DEFINE homes == [home EXCEPT ![t] = b]
             ends == [end EXCEPT ![t] = b + 1]
             tops == [top EXCEPT ![t] = Addr(b)]
  <2>0. homes = [home EXCEPT ![t] = b] /\ ends = [end EXCEPT ![t] = b + 1]
        /\ tops = [top EXCEPT ![t] = Addr(b)]
    OBVIOUS
  <2> HIDE DEF homes, ends, tops
  <2>2. /\ Below(mem', b + 1, homes, ends, tops) /\ Fresh(mem', b + 1, homes, ends)
        /\ homes[t] = b /\ ends[t] = b + 1 /\ tops[t] = Addr(b)
        /\ \A u \in Thread : Live(b, home, end, u) =>
              /\ u # t /\ Live(b + 1, homes, ends, u)
              /\ homes[u] = home[u] /\ tops[u] = top[u]
    <3>1. Calls
      BY DEF CallsInv
    <3>2. Housed(mem', b, home, end, top, t, homes, ends, tops)
      BY <1>1, <1>6, <2>0, <3>1, NewHome
    <3> QED
      BY <3>2 DEF Housed
  <2>3. Blocks(b + 1, homes, ends, tops)'
    BY <1>1, <2>2, FindBlocks DEF CallsInv
  <2>4. MainFirst(b + 1)'
    <3>1. mem'.owner[b] = t /\ \A p \in Page : p # b => mem'.owner[p] = mem.owner[p]
      BY <1>2, <2>1, ClaimedIs
    <3>2. SYSPAGES < b + 1 /\ SYSPAGES \in Page
      BY <1>3, Pages, Sized
    <3>3. mem'.owner[SYSPAGES] = Main
      <4>1. CASE SYSPAGES < b
        <5>1. mem.owner[SYSPAGES] = Main /\ SYSPAGES # b
          BY <1>1, <1>3, <4>1, Sized DEF MainFirst
        <5> QED
          BY <3>1, <3>2, <5>1
      <4>2. CASE ~ (SYSPAGES < b)
        <5>1. b = SYSPAGES
          BY <1>3, <4>2, Sized
        <5>2. ~ (nodeID > 0)
          BY <1>1, <4>2 DEF MainFirst
        <5>3. nodeID = 0
          BY <5>2, Sized DEF TypeInv, TypeOK
        <5>4. t = Main
          BY <1>2, <5>3 DEF CallsInv
        <5> QED
          BY <3>1, <5>1, <5>4
      <4> QED
        BY <4>1, <4>2
    <3> QED
      BY <3>2, <3>3 DEF MainFirst
  <2>5. homes[t] < ends[t]
    BY <1>3, <2>2
  <2>6. Good(b + 1, homes, ends, tops)'
    BY <1>2, <2>1, <2>2, <2>3, <2>4, <2>5 DEF Good
  <2> QED
    BY <2>6
<1> QED
  BY <1>3, <1>4, <1>5, <1>6

-----------------------------------------------------------------------------
(* MemPush *)

\* No page is claimed that has an owner.
LEMMA OwnersKept ==
  ASSUME NEW m, IsMemory(m), NEW b, NEW home, NEW end, NEW top, Below(m, b, home, end, top),
         NEW id, NEW h, NEW s \in Nat, NEW i \in UserPage,
         NEW x, x = memPush(m, id, h, s, i), NEW p \in Page, p < b
  PROVE  x.owner[p] = m.owner[p]
<1> DEFINE taken == Claimed(m, id, s, i)
<1>1. x.owner = [q \in Page |-> IF q \in taken THEN id ELSE m.owner[q]]
  BY DEF memPush
<1>2. \A q \in taken : q \in Nat /\ b <= q
  BY TakenIs
<1>3. b \in Nat /\ p \in Nat
  BY Sized DEF Below, Page
<1> HIDE DEF taken
<1>4. p \notin taken
  BY <1>2, <1>3
<1> QED
  BY <1>1, <1>4

\* The system pages are left alone.
LEMMA SystemKept ==
  ASSUME NEW m, IsMemory(m), NEW b, NEW home, NEW end, NEW top, Below(m, b, home, end, top),
         NEW id \in Thread, NEW h \in DOMAIN m.next, Addr(SYSPAGES) <= h, NEW s \in Nat,
         NEW i \in UserPage, ~Faults(m, id, h, s, i),
         NEW x, x = memPush(m, id, h, s, i), 0 <= x.remaining[i]
  PROVE  \A q \in 0 .. SYSPAGES - 1 :
           /\ Addr(q) \in x.free <=> Addr(q) \in m.free
           /\ x.remaining[q] = m.remaining[q]
<1> DEFINE n == Cardinality(Claimed(m, id, s, i))
           a == AccountAfter(m.remaining[i], s, n)
           taken == Claimed(m, id, s, i)
           curr == h + DATA + s
<1>1. i \in Page /\ h \in Nat /\ i \in Nat /\ SYSPAGES <= i
  BY Pages, MemoryFields, Sized DEF UserPage
<1>2. /\ curr \in Nat /\ h < curr
      /\ \E c : /\ IsMemory(c) /\ Charged(c, m, id, i, taken, a)
                /\ Extended(x, c, h, curr)
  BY <1>1, PushesInTwo
<1>3. PICK c : Charged(c, m, id, i, taken, a) /\ Extended(x, c, h, curr)
  BY <1>2
<1>4. \A p \in taken : p \in Nat /\ p \in UserPage
  BY TakenIs
<1>5. m.remaining \in [Page -> Int]
  BY MemoryFields
<1> HIDE DEF taken, a, n, curr
<1> TAKE q \in 0 .. SYSPAGES - 1
<1>6. q \in Nat /\ q \in Page /\ q < SYSPAGES
  BY Pages, Sized
<1>7. Addr(q) < Addr(SYSPAGES) /\ Addr(q) \in Nat /\ Addr(SYSPAGES) \in Nat
  BY <1>6, AddrOrder, Sized
<1>8. Addr(q) # h /\ Addr(q) # curr
  BY <1>1, <1>2, <1>7
<1>9. \A p \in taken : Addr(q) # Addr(p)
  <2> TAKE p \in taken
  <2>1. p \in Nat /\ q # p
    BY <1>4, <1>6, Sized DEF UserPage
  <2> QED
    BY <1>6, <2>1, AddrOrder
<1>10. Addr(q) \in x.free <=> Addr(q) \in m.free
  BY <1>3, <1>8, <1>9 DEF Charged, Extended
<1>11. x.remaining[q] = m.remaining[q]
  <2>1. x.remaining = [m.remaining EXCEPT ![i] = a]
    BY <1>3 DEF Charged, Extended
  <2>2. q # i
    BY <1>1, <1>6, Sized
  <2> QED
    BY <1>5, <1>6, <2>1, <2>2
<1> QED
  BY <1>10, <1>11

LEMMA PushStepIs ==
  ASSUME TypeInv, Calls, NEW t \in Thread, MemPush(t)
  PROVE  /\ runningID = t /\ pc[t] = "push"
         /\ ptr[t] \in DOMAIN mem.next /\ page[t] \in UserPage /\ size[t] \in Nat
         /\ nodeID' = nodeID /\ \A u \in Thread : pc'[u] # "push"
         /\ \/ mem' = mem /\ blocks' = blocks /\ process' # "up"
            \/ /\ ~Faults(mem, t, ptr[t], size[t], page[t])
               /\ mem' = memPush(mem, t, ptr[t], size[t], page[t])
               /\ blocks' = blocks \cup {Block(t, ptr[t], size[t])}
               /\ process' = process
<1>1. currThread = t /\ pc[t] = "push" /\ pc' = [pc EXCEPT ![t] = "user"] /\ nodeID' = nodeID
  BY DEF MemPush, At
<1>2. runningID = t /\ \A u \in Thread : u # t => pc[u] = "user"
  BY <1>1 DEF Calls, TypeInv, TypeOK
<1>3. ptr[t] \in DOMAIN mem.next /\ page[t] \in UserPage
  BY <1>1 DEF TypeInv
<1>4. size[t] \in Nat
  <2>1. \A z \in Sizes : z \in Nat
    BY Sized
  <2>2. size[t] \in Sizes \cup {0}
    BY DEF TypeInv, TypeOK
  <2> QED
    BY <2>1, <2>2
<1>5. \A u \in Thread : pc'[u] # "push"
  BY <1>1, <1>2 DEF TypeInv, TypeOK
<1>6. Push(t, ptr[t], size[t], page[t], mem, t)
  BY <1>2 DEF MemPush
<1>7. CASE Faults(mem, t, ptr[t], size[t], page[t]) \/ Tears(mem, t, ptr[t], size[t], page[t])
  <2>1. mem' = mem /\ blocks' = blocks /\ process' # "up"
    BY <1>6, <1>7 DEF Push
  <2> QED
    BY <1>1, <1>2, <1>3, <1>4, <1>5, <2>1
<1>8. CASE ~Faults(mem, t, ptr[t], size[t], page[t]) /\ ~Tears(mem, t, ptr[t], size[t], page[t])
  <2>1. /\ mem' = memPush(mem, t, ptr[t], size[t], page[t])
        /\ blocks' = blocks \cup {Block(t, ptr[t], size[t])} /\ process' = process
    BY <1>6, <1>8 DEF Push
  <2> QED
    BY <1>1, <1>2, <1>3, <1>4, <1>5, <1>8, <2>1
<1> QED
  BY <1>7, <1>8

\* The new block lies behind the thread's others, and away from the rest.
LEMMA PushBlocks ==
  ASSUME TypeInv, NEW t \in Thread, NEW s \in Nat,
         NEW b, NEW home, NEW end, NEW top, Blocks(b, home, end, top),
         Below(mem, b, home, end, top), Live(b, home, end, t),
         NEW upTo, NEW ends, upTo \in Nat,
         NEW curr, curr = top[t] + DATA + s,
         GoodAgain(mem', b, home, end, top, t, curr, upTo, ends),
         blocks' = blocks \cup {Block(t, top[t], s)}, nodeID' = nodeID, process' = process,
         \A q \in 0 .. SYSPAGES - 1 : Addr(q) \in mem'.free <=> Addr(q) \in mem.free,
         NEW up, up = [top EXCEPT ![t] = curr]
  PROVE  Blocks(upTo, home, ends, up)'
<1> SUFFICES ASSUME SystemPagesLeft'
             PROVE  /\ NoOverlap'
                    /\ \A c \in blocks' : InSystem(c)' \/ InRun(c, upTo, home, ends, up)
                    /\ process' = "up" =>
                         \A q \in 0 .. SYSPAGES - 1 : Addr(q) \in mem'.free <=> Used' <= q
  BY DEF Blocks, InRun, Live
<1>1. SystemPagesLeft
  BY DEF SystemPagesLeft
<1>2. /\ NoOverlap /\ \A c \in blocks : InSystem(c) \/ InRun(c, b, home, end, top)
      /\ process = "up" => \A q \in 0 .. SYSPAGES - 1 : Addr(q) \in mem.free <=> Used <= q
  BY <1>1 DEF Blocks
<1>3. /\ top \in [Thread -> Address] /\ home \in [Thread -> SYSPAGES .. TOTALPAGES]
      /\ end \in [Thread -> SYSPAGES .. TOTALPAGES]
      /\ b \in Nat /\ IsMemory(mem)
      /\ blocks \subseteq [thread : Thread \cup {Nobody}, from : 0 .. MemSize, to : Nat]
  BY Sized DEF Below, TypeInv, TypeOK
<1>4. /\ top[t] \in Nat /\ Addr(home[t]) <= top[t] /\ home[t] \in Nat /\ Addr(SYSPAGES) <= top[t]
  BY <1>3, LiveIs
<1>5. /\ b <= upTo /\ Live(upTo, home, ends, t) /\ \A u \in Thread : u # t => ends[u] = end[u]
      /\ \A u \in Thread : u # t /\ Live(b, home, end, u) =>
           curr < Addr(home[u]) \/ top[u] < Addr(home[t])
  BY DEF GoodAgain
<1>6. /\ curr \in Nat /\ top[t] < curr /\ Addr(home[t]) \in Nat /\ Addr(SYSPAGES) \in Nat
      /\ up[t] = curr /\ \A u \in Thread : u # t => up[u] = top[u]
  BY <1>3, <1>4, AddrIsNat, Sized
<1> DEFINE nb == Block(t, top[t], s)
<1>7. nb.thread = t /\ nb.from = top[t] + DATA /\ nb.to = curr
  BY DEF Block
<1> HIDE DEF nb
<1>8. ASSUME NEW c \in blocks PROVE c.to <= nb.from \/ nb.to <= c.from
  <2>0. c.to \in Nat /\ c.from \in Nat /\ nb.from \in Nat /\ top[t] <= nb.from
    <3>1. c.to \in Nat /\ c.from \in 0 .. MemSize /\ MemSize \in Nat
      BY <1>3, MemoryEnds
    <3> QED
      BY <1>4, <1>7, <3>1, Sized
  <2>1. CASE InSystem(c)
    <3>1. PICK q \in 0 .. SYSPAGES - 1 : c.to <= Addr(q + 1)
      BY <2>1 DEF InSystem
    <3>2. q + 1 \in Nat /\ q + 1 <= SYSPAGES
      BY Sized
    <3>3. Addr(q + 1) <= Addr(SYSPAGES) /\ Addr(q + 1) \in Nat
      BY <3>2, AddrOrder, Sized
    <3> QED
      BY <1>4, <1>6, <2>0, <3>1, <3>3
  <2>2. CASE InRun(c, b, home, end, top)
    <3> DEFINE u == c.thread
    <3>1. /\ u \in Thread /\ Live(b, home, end, u) /\ Addr(home[u]) <= c.from /\ c.to <= top[u]
      BY <2>2 DEF InRun
    <3> HIDE DEF u
    <3>2. CASE u = t
      BY <1>4, <2>0, <3>1, <3>2
    <3>3. CASE u # t
      <4>1. top[u] \in Nat /\ Addr(home[u]) \in Nat
        BY <1>3, <3>1, LiveIs, AddrIsNat
      <4>2. CASE curr < Addr(home[u])
        BY <1>6, <1>7, <2>0, <3>1, <4>1, <4>2
      <4>3. CASE top[u] < Addr(home[t])
        BY <1>4, <1>6, <2>0, <3>1, <4>1, <4>3
      <4> QED
        BY <1>5, <3>1, <3>3, <4>2, <4>3
    <3> QED
      BY <3>2, <3>3
  <2> QED
    BY <1>2, <2>1, <2>2
<1>9. NoOverlap'
  <2>1. blocks' = blocks \cup {nb}
    BY DEF nb
  <2>2. ASSUME NEW x \in blocks', NEW y \in blocks', x # y
        PROVE  x.to <= y.from \/ y.to <= x.from
    BY <1>2, <1>8, <2>1, <2>2 DEF NoOverlap
  <2> QED
    BY <2>2 DEF NoOverlap
<1>10. ASSUME NEW c \in blocks' PROVE InSystem(c)' \/ InRun(c, upTo, home, ends, up)
  <2>1. CASE c = nb
    <3>1. Addr(home[t]) <= nb.from /\ nb.to <= up[t]
      BY <1>4, <1>6, <1>7, Sized
    <3> QED
      BY <1>5, <1>7, <2>1, <3>1 DEF InRun
  <2>2. CASE c \in blocks
    <3>1. CASE InSystem(c)
      BY <3>1 DEF InSystem
    <3>2. CASE InRun(c, b, home, end, top)
      <4> DEFINE u == c.thread
      <4>1. /\ u \in Thread /\ Live(b, home, end, u) /\ Addr(home[u]) <= c.from /\ c.to <= top[u]
        BY <3>2 DEF InRun
      <4> HIDE DEF u
      <4>2. top[u] \in Nat /\ home[u] \in Nat /\ c.to \in Nat
        BY <1>3, <2>2, <4>1, LiveIs
      <4>3. Live(upTo, home, ends, u)
        BY <1>3, <1>5, <4>1, <4>2 DEF Live
      <4>4. c.to <= up[u]
        BY <1>6, <4>1, <4>2
      <4> QED
        BY <4>1, <4>3, <4>4 DEF InRun, u
    <3> QED
      BY <1>2, <2>2, <3>1, <3>2
  <2> QED
    BY <2>1, <2>2 DEF nb
<1>11. ASSUME process' = "up" PROVE \A q \in 0 .. SYSPAGES - 1 : Addr(q) \in mem'.free <=> Used' <= q
  <2>1. (\E c \in blocks' : c.thread = Nobody) <=> (\E c \in blocks : c.thread = Nobody)
    <3>1. nb.thread # Nobody
      BY <1>7, Sized DEF Thread, Nobody
    <3> QED
      BY <3>1 DEF nb
  <2>2. Used' = Used
    BY <2>1 DEF Used
  <2> QED
    BY <1>2, <1>11, <2>2
<1> QED
  BY <1>9, <1>10, <1>11

LEMMA CoveredIs ==
  ASSUME NEW m, IsMemory(m), NEW i \in UserPage, \A p \in UserPage : m.remaining[p] >= 0
  PROVE  0 <= m.remaining[i]
<1> DEFINE r == m.remaining[i]
<1>1. r \in Int /\ r >= 0
  BY Pages, MemoryFields
<1> HIDE DEF r
<1>2. 0 <= r
  BY <1>1
<1> QED
  BY <1>2 DEF r

LEMMA PushGood ==
  ASSUME TypeInv, TypeInv', Calls, SystemFresh, NoDeficit', NEW t \in Thread, MemPush(t),
         process' = "up",
         NEW b, NEW home, NEW end, NEW top, Good(b, home, end, top)
  PROVE  InOrder'
<1>1. /\ Below(mem, b, home, end, top) /\ Fresh(mem, b, home, end) /\ MainFirst(b)
      /\ Blocks(b, home, end, top)
      /\ pc[t] = "push" => home[t] < end[t] /\ page[t] = home[t] /\ ptr[t] = top[t]
  BY DEF Good
<1>0. PICK s : s = size[t]
  OBVIOUS
<1>2. /\ pc[t] = "push" /\ page[t] \in UserPage /\ s \in Nat
      /\ nodeID' = nodeID /\ \A u \in Thread : pc'[u] # "push"
      /\ ~Faults(mem, t, ptr[t], s, page[t])
      /\ mem' = memPush(mem, t, ptr[t], s, page[t])
      /\ blocks' = blocks \cup {Block(t, ptr[t], s)}
      /\ process' = process
  BY <1>0, PushStepIs
<1>3. IsMemory(mem) /\ IsMemory(mem')
  BY DEF TypeInv
<1>4. /\ b \in Nat /\ home[t] \in Nat /\ end[t] \in Nat
      /\ home[t] < end[t] /\ page[t] = home[t] /\ ptr[t] = top[t]
  BY <1>1, <1>2, Sized DEF Below
<1>5. Live(b, home, end, t)
  <2>1. end[t] <= b
    BY <1>1, <1>4 DEF Fresh
  <2> QED
    BY <1>4, <2>1 DEF Live
<1>6. /\ home[t] \in UserPage /\ top[t] \in DOMAIN mem.next /\ Addr(SYSPAGES) <= top[t]
      /\ SYSPAGES < b /\ top \in [Thread -> Address]
  BY <1>1, <1>3, <1>5, LiveIs DEF Below
<1>7. 0 <= mem'.remaining[home[t]]
  BY <1>3, <1>6, CoveredIs DEF NoDeficit
<1> DEFINE x == mem'
<1>8. /\ ~Faults(mem, t, top[t], s, home[t]) /\ x = memPush(mem, t, top[t], s, home[t])
      /\ IsMemory(x) /\ 0 <= x.remaining[home[t]]
  BY <1>2, <1>3, <1>4, <1>7
<1> HIDE DEF x
<1>9. \A q \in 0 .. SYSPAGES - 1 : /\ Addr(q) \in x.free <=> Addr(q) \in mem.free
                                   /\ x.remaining[q] = mem.remaining[q]
  BY <1>1, <1>2, <1>3, <1>6, <1>8, SystemKept
<1>10. SystemFresh'
  BY <1>9 DEF SystemFresh, x
<1>11. x.owner[SYSPAGES] = mem.owner[SYSPAGES]
  BY <1>1, <1>2, <1>3, <1>6, <1>8, OwnersKept, Pages
<1>12. mem.owner[SYSPAGES] = Main
  BY <1>1, <1>6 DEF MainFirst
<1>13. ASSUME NEW upTo, SYSPAGES < upTo PROVE MainFirst(upTo)'
  BY <1>11, <1>12, <1>13 DEF MainFirst, x
<1> DEFINE curr == top[t] + DATA + s
<1>14. PICK upTo, ends :
         \/ GoodAgain(x, b, home, end, top, t, curr, upTo, ends)
         \/ SpoiltNow(x, home, top, upTo, ends)
  BY <1>1, <1>2, <1>3, <1>5, <1>8, GoodPush
<1>15. curr = top[t] + DATA + s
  OBVIOUS
<1> HIDE DEF curr
<1> DEFINE up == [top EXCEPT ![t] = curr]
<1>18. up = [top EXCEPT ![t] = curr]
  OBVIOUS
<1> HIDE DEF up
<1>16. CASE GoodAgain(x, b, home, end, top, t, curr, upTo, ends)
  <2>1. Below(x, upTo, home, ends, up) /\ Fresh(x, upTo, home, ends) /\ b <= upTo
    BY <1>16, <1>18 DEF GoodAgain
  <2>2. upTo \in Nat /\ SYSPAGES < upTo
    <3>1. upTo \in SYSPAGES .. TOTALPAGES
      BY <2>1 DEF Below
    <3> QED
      BY <1>4, <1>6, <2>1, <3>1, Sized
  <2>3. Blocks(upTo, home, ends, up)'
    <3>1. blocks' = blocks \cup {Block(t, top[t], s)}
      BY <1>2, <1>4
    <3>2. GoodAgain(mem', b, home, end, top, t, curr, upTo, ends)
      BY <1>16 DEF x
    <3>3. \A q \in 0 .. SYSPAGES - 1 : Addr(q) \in mem'.free <=> Addr(q) \in mem.free
      BY <1>9 DEF x
    <3> QED
      BY <1>1, <1>2, <1>5, <1>15, <1>18, <2>2, <3>1, <3>2, <3>3, PushBlocks
  <2>4. Good(upTo, home, ends, up)'
    BY <1>2, <1>13, <2>1, <2>2, <2>3 DEF Good, x
  <2> QED
    BY <1>10, <2>4 DEF InOrder
<1>17. CASE SpoiltNow(x, home, top, upTo, ends)
  <2>1. Local(upTo, home, ends, top)'
    BY <1>2 DEF Local
  <2>2. Spoilt(upTo, home, ends, top)'
    BY <1>13, <1>17, <2>1 DEF Spoilt, SpoiltNow, x
  <2> QED
    BY <1>10, <2>2 DEF InOrder
<1> QED
  BY <1>14, <1>16, <1>17

LEMMA PushSpoilt ==
  ASSUME TypeInv, TypeInv', Calls, SystemFresh, NoDeficit', NEW t \in Thread, MemPush(t),
         process' = "up",
         NEW b, NEW home, NEW end, NEW top, Spoilt(b, home, end, top)
  PROVE  InOrder'
<1>1. /\ Below(mem, b, home, end, top) /\ Fallen(mem, b, home, end, top) /\ MainFirst(b)
      /\ Local(b, home, end, top)
  BY DEF Spoilt
<1> DEFINE s == size[t]
           h == ptr[t]
           i == page[t]
           x == mem'
<1>2. /\ pc[t] = "push" /\ h \in DOMAIN mem.next /\ i \in UserPage /\ s \in Nat
      /\ \A u \in Thread : pc'[u] # "push"
      /\ ~Faults(mem, t, h, s, i) /\ x = memPush(mem, t, h, s, i)
  BY PushStepIs
<1>3. IsMemory(mem) /\ IsMemory(x)
  BY DEF TypeInv
<1>4. 0 <= x.remaining[i]
  BY <1>2, <1>3, CoveredIs DEF NoDeficit
<1>5. PICK o \in Thread : home[o] < b /\ b < end[o]
  BY <1>1 DEF Fallen
<1>6. /\ b \in Nat /\ home \in [Thread -> SYSPAGES .. TOTALPAGES]
      /\ end \in [Thread -> SYSPAGES .. TOTALPAGES] /\ SYSPAGES < b
      /\ Addr(SYSPAGES) \in Nat /\ Addr(b) \in Nat /\ Addr(SYSPAGES) < Addr(b)
  <2>1. b \in SYSPAGES .. TOTALPAGES /\ home \in [Thread -> SYSPAGES .. TOTALPAGES]
        /\ end \in [Thread -> SYSPAGES .. TOTALPAGES]
    BY <1>1 DEF Below
  <2>2. b \in Nat /\ SYSPAGES < b
    BY <1>5, <2>1, Sized
  <2> QED
    BY <2>1, <2>2, AddrOrder, Sized
<1>7. /\ (Live(b, home, end, t) /\ i = home[t]) \/ b <= i
      /\ \/ Live(b, home, end, t) /\ end[t] <= b /\ i = home[t] /\ h = top[t]
         \/ Addr(b) <= h
  <2>1. \/ /\ Live(b, home, end, t) /\ end[t] <= b /\ i = home[t] /\ h = top[t]
        \/ /\ Addr(b) <= h
           /\ \/ b <= i
              \/ i = home[t] /\ home[t] < b /\ b < end[t]
    BY <1>1, <1>2 DEF Local
  <2>2. home[t] < b /\ b < end[t] => Live(b, home, end, t)
    BY <1>6, Sized DEF Live
  <2> QED
    BY <2>1, <2>2
<1> HIDE DEF s, h, i, x
<1>8. Addr(SYSPAGES) <= h
  <2>1. h \in Nat
    BY <1>2, <1>3, MemoryFields
  <2>2. Live(b, home, end, t) => Addr(SYSPAGES) <= top[t]
    BY <1>1, <1>3, LiveIs
  <2> QED
    BY <1>6, <1>7, <2>1, <2>2
<1>9. \A q \in 0 .. SYSPAGES - 1 : /\ Addr(q) \in x.free <=> Addr(q) \in mem.free
                                   /\ x.remaining[q] = mem.remaining[q]
  BY <1>1, <1>2, <1>3, <1>4, <1>8, SystemKept
<1>10. SystemFresh'
  BY <1>9 DEF SystemFresh, x
<1>11. x.owner[SYSPAGES] = mem.owner[SYSPAGES]
  BY <1>1, <1>2, <1>3, <1>6, OwnersKept, Pages
<1>12. mem.owner[SYSPAGES] = Main
  BY <1>1, <1>6 DEF MainFirst
<1>13. ASSUME NEW upTo, SYSPAGES < upTo PROVE MainFirst(upTo)'
  BY <1>11, <1>12, <1>13 DEF MainFirst, x
<1>14. PICK upTo, tops : SpoiltNow(x, home, tops, upTo, end)
  BY <1>1, <1>2, <1>3, <1>4, <1>7, SpoiltPush
<1>15. Local(upTo, home, end, tops)'
  BY <1>2 DEF Local
<1>16. Spoilt(upTo, home, end, tops)'
  BY <1>13, <1>14, <1>15 DEF Spoilt, SpoiltNow, x
<1> QED
  BY <1>10, <1>16 DEF InOrder

-----------------------------------------------------------------------------
(* initQueue and CreateThread: requests for system pages. *)

\* An address strictly within a page is not that of a page.
LEMMA WithinPage ==
  ASSUME NEW q \in Nat, NEW k \in Nat, Addr(q) < k, k < Addr(q + 1)
  PROVE  ~IsPageAddr(k)
<1> SUFFICES ASSUME NEW p \in Page, k = Addr(p) PROVE FALSE
  BY DEF IsPageAddr
<1>1. p \in Nat
  BY Sized DEF Page
<1>2. q < p /\ p < q + 1
  BY <1>1, AddrOrder
<1> QED
  BY <1>1, <1>2

\* The owner of a system page is nothing to the threads' pages.
LEMMA OwnedAside ==
  ASSUME NEW m, IsMemory(m), NEW c, IsMemory(c), NEW q \in 0 .. SYSPAGES - 1, NEW id,
         c.owner = [m.owner EXCEPT ![q] = id], c.remaining = m.remaining,
         c.free = m.free, c.next = m.next,
         NEW b, NEW home, NEW end, NEW top, Below(m, b, home, end, top)
  PROVE  /\ Below(c, b, home, end, top)
         /\ Fresh(m, b, home, end) => Fresh(c, b, home, end)
         /\ Fallen(m, b, home, end, top) => Fallen(c, b, home, end, top)
         /\ c.owner[SYSPAGES] = m.owner[SYSPAGES]
<1>1. b \in SYSPAGES .. TOTALPAGES /\ b \in Nat
  BY Sized DEF Below
<1>2. \A p \in Page : SYSPAGES <= p => c.owner[p] = m.owner[p]
  BY MemoryFields, Sized
<1>3. SameBelow(m, c, b)
  <2>1. \A p \in SYSPAGES .. b - 1 : p \in Page /\ SYSPAGES <= p
    BY <1>1, Sized DEF Page
  <2> QED
    BY <1>2, <2>1 DEF SameBelow
<1>4. Climbs(c)
  BY DEF Below, Climbs
<1>5. \A t \in Thread : Live(b, home, end, t) /\ end[t] <= b =>
        c.remaining[home[t]] <= m.remaining[home[t]]
  <2> TAKE t \in Thread
  <2> HAVE Live(b, home, end, t) /\ end[t] <= b
  <2>1. m.remaining[home[t]] \in Int
    BY LiveIs, MemoryFields
  <2> QED
    BY <2>1
<1>6. Below(c, b, home, end, top)
  BY <1>3, <1>4, <1>5, BelowSame
<1>7. Fresh(m, b, home, end) => Fresh(c, b, home, end)
  <2>1. \A p \in b .. TOTALPAGES - 1 : p \in Page /\ SYSPAGES <= p
    BY <1>1, Sized DEF Page
  <2> QED
    BY <1>2, <2>1 DEF Fresh
<1>8. Fallen(m, b, home, end, top) => Fallen(c, b, home, end, top)
  BY DEF Fallen
<1>9. c.owner[SYSPAGES] = m.owner[SYSPAGES]
  BY <1>2, Pages, Sized
<1> QED
  BY <1>6, <1>7, <1>8, <1>9

LEMMA ExtendFresh ==
  ASSUME NEW x, NEW c, IsMemory(c), NEW h \in DOMAIN c.next, NEW curr \in Nat,
         h < curr, Extended(x, c, h, curr), curr < Addr(SYSPAGES), ~IsPageAddr(curr),
         NEW b \in Nat, SYSPAGES <= b, NEW home, NEW end, Fresh(c, b, home, end)
  PROVE  Fresh(x, b, home, end)
<1>1. h \in Nat /\ Addr(b) \in Nat /\ Addr(SYSPAGES) \in Nat /\ Addr(SYSPAGES) <= Addr(b)
  BY MemoryFields, AddrOrder, Sized
<1>2. Untouched(x, c, h, curr)
  BY ExtendedIs
<1>3. x.next[h] = curr /\ x.next[curr] = NoNext /\ DOMAIN x.next = DOMAIN c.next \cup {curr}
      /\ x.owner = c.owner /\ x.remaining = c.remaining
  BY <1>1 DEF Extended
<1>4. ASSUME NEW p \in b .. TOTALPAGES - 1
      PROVE  /\ x.owner[p] = Nobody /\ Addr(p) \in x.free
             /\ x.remaining[p] = PAGE_SIZE - HEADER /\ x.next[Addr(p)] = NoNext
  <2>1. /\ c.owner[p] = Nobody /\ Addr(p) \in c.free
        /\ c.remaining[p] = PAGE_SIZE - HEADER /\ c.next[Addr(p)] = NoNext
    BY DEF Fresh
  <2>2. p \in Nat /\ b <= p
    BY Sized
  <2>3. Addr(b) <= Addr(p) /\ Addr(p) \in Nat
    BY <2>2, AddrOrder
  <2>4. Addr(p) # h /\ Addr(p) # curr
    BY <1>1, <2>3
  <2>5. Addr(p) \in DOMAIN c.next
    BY <2>1, MemoryFields
  <2> QED
    BY <1>2, <1>3, <2>1, <2>4, <2>5 DEF Untouched
<1>5. ASSUME NEW k \in DOMAIN x.next, Addr(b) <= k PROVE IsPageAddr(k)
  <2>1. k \in DOMAIN c.next
    BY <1>1, <1>3, <1>5
  <2> QED
    BY <1>5, <2>1 DEF Fresh
<1>6. ASSUME NEW k \in DOMAIN x.next PROVE ~IsPageAddr(x.next[k])
  <2>1. CASE k = h
    BY <1>3, <2>1
  <2>2. CASE k = curr
    <3>1. NoNext \notin Nat /\ \A p \in Page : Addr(p) \in Nat
      BY Sized, AddrIsNat DEF NoNext, Page
    <3> QED
      BY <1>3, <2>2, <3>1 DEF IsPageAddr
  <2>3. CASE k # h /\ k # curr
    BY <1>2, <1>6, <2>3 DEF Untouched, Fresh
  <2> QED
    BY <2>1, <2>2, <2>3
<1> QED
  BY <1>4, <1>5, <1>6 DEF Fresh

\* Nobody is in myallocate but Main, who asks.
LEMMA AskIs ==
  ASSUME TypeInv, CallsInv, NEW id \in Thread \cup {Nobody}, NEW s \in Nat,
         SystemRequest(id, s),
         NEW m, m = [mem EXCEPT !.owner[SystemPage] = id]
  PROVE  /\ process = "up" /\ \A u \in Thread : pc'[u] # "push"
         /\ page' = page /\ ptr' = ptr /\ pc' = pc
         /\ \/ mem' = mem /\ blocks' = blocks /\ process' # "up"
            \/ /\ ~Faults(m, Main, Addr(SystemPage), s, SystemAccount)
               /\ mem' = memPush(m, Main, Addr(SystemPage), s, SystemAccount)
               /\ blocks' = blocks \cup {Block(id, Addr(SystemPage), s)}
               /\ process' = process
<1>1. process = "up" /\ pc' = pc /\ page' = page /\ ptr' = ptr /\ currThread = Main /\ pc[Main] = "user"
      /\ Push(id, Addr(SystemPage), s, SystemAccount, m, Main)
  BY DEF SystemRequest, At
<1>2. \A u \in Thread : pc'[u] # "push"
  BY <1>1 DEF CallsInv, Calls
<1> QED
  BY <1>1, <1>2 DEF Push

\* A request for a page that nobody has had yet is met from that page.
LEMMA SystemPush ==
  ASSUME NEW m, IsMemory(m), NEW q \in 0 .. SYSPAGES - 1,
         m.remaining[q] = PAGE_SIZE - HEADER,
         NEW s \in Nat, 0 < s, s + HEADER < PAGE_SIZE, ~Faults(m, Main, Addr(q), s, q),
         NEW x, x = memPush(m, Main, Addr(q), s, q),
         NEW curr, curr = Addr(q) + DATA + s
  PROVE  /\ curr \in Nat /\ Addr(q) < curr /\ curr < Addr(q + 1) /\ curr < Addr(SYSPAGES)
         /\ ~IsPageAddr(curr)
         /\ \E c, a : /\ a \in Int /\ IsMemory(c) /\ Charged(c, m, Main, q, {}, a)
                      /\ Extended(x, c, Addr(q), curr)
<1> DEFINE taken == Claimed(m, Main, s, q)
           n == Cardinality(taken)
           a == AccountAfter(m.remaining[q], s, n)
           new == NewHeader(m, Main, Addr(q), s, q)
<1>1. q \in Nat /\ q \in Page /\ q < SYSPAGES /\ Addr(q) \in DOMAIN m.next /\ Main \in Thread
  BY Pages, Sized DEF IsMemory
<1>2. PagesRequested(m, s, q) = 0
  BY Sized DEF PagesRequested
<1>3. taken = {}
  BY <1>1, <1>2, ClaimsAre
<1>4. ~Unsatisfied(m, Main, s, q)
  BY <1>2, <1>3, FS_EmptySet DEF Unsatisfied
<1>5. new = curr
  BY <1>1, <1>4, NewHeaderIs
<1>6. Addr(q + 1) = Addr(q) + PAGE_SIZE /\ Addr(q) \in Nat /\ Addr(q + 1) \in Nat
      /\ Addr(SYSPAGES) \in Nat /\ Addr(q + 1) <= Addr(SYSPAGES)
  <2>1. q + 1 \in Nat /\ q + 1 <= SYSPAGES
    BY <1>1, Sized
  <2> QED
    BY <1>1, <2>1, AddrNext, AddrOrder, Sized
<1>7. /\ curr \in Nat /\ Addr(q) < curr /\ curr < Addr(q + 1) /\ curr < Addr(SYSPAGES)
  BY <1>6, Sized
<1>8. ~IsPageAddr(curr)
  BY <1>1, <1>7, WithinPage
<1>9. Pushed(x, m, Main, Addr(q), q, taken, new, a)
  BY PushIs
<1>10. a \in Int
  BY <1>1, AccountIs
<1> HIDE DEF a, n, taken, new
<1>11. \E c : IsMemory(c) /\ Charged(c, m, Main, q, taken, a) /\ Extended(x, c, Addr(q), new)
  BY <1>1, <1>9, <1>10, PushInTwo
<1> QED
  BY <1>3, <1>5, <1>7, <1>8, <1>10, <1>11

\* ... and is nothing to the pages of the threads.
LEMMA SystemAside ==
  ASSUME NEW m, IsMemory(m), NEW q \in 0 .. SYSPAGES - 1,
         m.remaining[q] = PAGE_SIZE - HEADER,
         NEW s \in Nat, 0 < s, s + HEADER < PAGE_SIZE, ~Faults(m, Main, Addr(q), s, q),
         NEW x, IsMemory(x), x = memPush(m, Main, Addr(q), s, q),
         NEW b, NEW home, NEW end, NEW top, Below(m, b, home, end, top)
  PROVE  /\ Below(x, b, home, end, top)
         /\ Fresh(m, b, home, end) => Fresh(x, b, home, end)
         /\ Fallen(m, b, home, end, top) => Fallen(x, b, home, end, top)
         /\ x.owner[SYSPAGES] = m.owner[SYSPAGES]
<1> DEFINE curr == Addr(q) + DATA + s
           none == {}
<1>0. curr = Addr(q) + DATA + s /\ none = {}
  OBVIOUS
<1> HIDE DEF curr, none
<1>1. /\ curr \in Nat /\ Addr(q) < curr /\ curr < Addr(q + 1) /\ curr < Addr(SYSPAGES)
      /\ ~IsPageAddr(curr)
      /\ \E c, a : /\ a \in Int /\ IsMemory(c) /\ Charged(c, m, Main, q, {}, a)
                   /\ Extended(x, c, Addr(q), curr)
  BY <1>0, SystemPush
<1>2. PICK c, a : /\ a \in Int /\ IsMemory(c) /\ Charged(c, m, Main, q, none, a)
                  /\ Extended(x, c, Addr(q), curr)
  BY <1>0, <1>1
<1>3. q \in Nat /\ q \in Page /\ q < SYSPAGES /\ b \in Nat /\ SYSPAGES <= b
  BY Pages, Sized DEF Below
<1>4. \A p \in none : p \in Nat /\ b <= p
  BY <1>0
<1>5. ASSUME NEW t \in Thread, Live(b, home, end, t), end[t] <= b, home[t] = q
      PROVE  a <= m.remaining[q]
  <2>1. SYSPAGES <= home[t] /\ home[t] \in Nat
    BY <1>5, LiveIs
  <2> QED
    BY <1>3, <1>5, <2>1, Sized
<1>6. /\ Below(c, b, home, end, top)
      /\ Fallen(m, b, home, end, top) => Fallen(c, b, home, end, top)
  BY <1>2, <1>3, <1>4, <1>5, ChargeAside
<1>7. /\ c.owner = [p \in Page |-> m.owner[p]] /\ c.remaining = [m.remaining EXCEPT ![q] = a]
      /\ c.free = m.free /\ c.next = m.next
  BY <1>0, <1>2 DEF Charged
<1>8. Fresh(m, b, home, end) => Fresh(c, b, home, end)
  <2>1. \A p \in b .. TOTALPAGES - 1 : p \in Page /\ p # q
    BY <1>3, Sized DEF Page
  <2>2. m.remaining \in [Page -> Int]
    BY MemoryFields
  <2> QED
    BY <1>7, <2>1, <2>2 DEF Fresh
<1>9. Addr(q) \in DOMAIN c.next
  BY <1>2, <1>3 DEF IsMemory
<1>10. Below(x, b, home, end, top)
  BY <1>1, <1>2, <1>6, <1>9, ExtendElsewhere
<1>11. Fallen(c, b, home, end, top) => Fallen(x, b, home, end, top)
  BY <1>1, <1>2, <1>6, <1>9, ExtendFallen
<1>12. Fresh(c, b, home, end) => Fresh(x, b, home, end)
  BY <1>1, <1>2, <1>3, <1>9, ExtendFresh
<1>13. x.owner[SYSPAGES] = m.owner[SYSPAGES]
  BY <1>2, <1>7, Pages DEF Extended
<1> QED
  BY <1>6, <1>8, <1>10, <1>11, <1>12, <1>13

\* The header of the page is no longer free; nor is the new one a page's.
LEMMA SystemTaken ==
  ASSUME NEW m, IsMemory(m), NEW q \in 0 .. SYSPAGES - 1,
         m.remaining[q] = PAGE_SIZE - HEADER,
         NEW s \in Nat, 0 < s, s + HEADER < PAGE_SIZE, ~Faults(m, Main, Addr(q), s, q),
         NEW x, x = memPush(m, Main, Addr(q), s, q)
  PROVE  \A p \in 0 .. SYSPAGES - 1 :
           /\ Addr(p) \in x.free <=> Addr(p) \in m.free /\ p # q
           /\ p # q => x.remaining[p] = m.remaining[p]
<1> DEFINE curr == Addr(q) + DATA + s
<1>0. curr = Addr(q) + DATA + s
  OBVIOUS
<1> HIDE DEF curr
<1>1. /\ curr \in Nat /\ Addr(q) < curr /\ ~IsPageAddr(curr)
      /\ \E c, a : /\ a \in Int /\ IsMemory(c) /\ Charged(c, m, Main, q, {}, a)
                   /\ Extended(x, c, Addr(q), curr)
  BY <1>0, SystemPush
<1>2. PICK c, a : /\ Charged(c, m, Main, q, {}, a) /\ Extended(x, c, Addr(q), curr)
  BY <1>1
<1>3. /\ c.remaining = [m.remaining EXCEPT ![q] = a] /\ c.free = m.free
      /\ x.remaining = c.remaining /\ x.free = (c.free \cup {curr}) \ {Addr(q)}
  BY <1>2 DEF Charged, Extended
<1> TAKE p \in 0 .. SYSPAGES - 1
<1>4. p \in Nat /\ q \in Nat /\ p \in Page /\ q \in Page
  BY Pages
<1>5. Addr(p) # curr /\ (Addr(p) = Addr(q) <=> p = q)
  BY <1>1, <1>4, AddrOrder DEF IsPageAddr
<1>6. m.remaining \in [Page -> Int]
  BY MemoryFields
<1> QED
  BY <1>3, <1>4, <1>5, <1>6

\* Who asks for a system page: initQueue, or CreateThread for the next id.
Asked(id) ==
  \/ id = Nobody /\ nodeID' = nodeID /\ \A c \in blocks : c.thread # Nobody
  \/ /\ id = nodeID /\ id \in Thread /\ nodeID' = nodeID + 1
     /\ \E c \in blocks : c.thread = Nobody
     /\ \E c \in blocks : c.thread = Main

\* The pages are used in the order of the requests.
LEMMA NextSystemPage ==
  ASSUME TypeInv, NEW id, Asked(id), NEW a, NEW s,
         blocks' = blocks \cup {Block(id, a, s)},
         \A p \in 0 .. SYSPAGES - 1 : Addr(p) \in mem.free <=> Used <= p,
         NEW q \in 0 .. SYSPAGES - 1, Addr(q) \in mem.free,
         \A p \in 0 .. SYSPAGES - 1 : p < q => Addr(p) \notin mem.free,
         \A p \in 0 .. SYSPAGES - 1 :
           Addr(p) \in mem'.free <=> Addr(p) \in mem.free /\ p # q
  PROVE  \A p \in 0 .. SYSPAGES - 1 : Addr(p) \in mem'.free <=> Used' <= p
<1>1. nodeID \in Nat
  BY Sized DEF TypeInv, TypeOK
<1> DEFINE nb == Block(id, a, s)
<1>2. nb.thread = id /\ blocks' = blocks \cup {nb}
  BY DEF Block
<1> HIDE DEF nb
<1>3. Used \in Nat /\ Used' = Used + 1
  <2>1. CASE id = Nobody /\ nodeID' = nodeID /\ \A c \in blocks : c.thread # Nobody
    BY <1>1, <1>2, <2>1 DEF Used
  <2>2. CASE id = nodeID /\ nodeID' = nodeID + 1 /\ \E c \in blocks : c.thread = Nobody
    BY <1>1, <1>2, <2>2 DEF Used
  <2> QED
    BY <2>1, <2>2 DEF Asked
<1>4. PICK u : u = Used
  OBVIOUS
<1>5. u \in Nat /\ Used' = u + 1 /\ q \in Nat /\ q < SYSPAGES
  BY <1>3, <1>4, Sized
<1>6. q = u
  <2>1. u <= q
    BY <1>4
  <2>2. CASE u < q
    <3>1. u \in 0 .. SYSPAGES - 1
      BY <1>5, <2>2, Sized
    <3> QED
      BY <1>4, <1>5, <2>2, <3>1
  <2> QED
    BY <1>5, <2>1, <2>2
<1> TAKE p \in 0 .. SYSPAGES - 1
<1>7. p \in Nat
  BY Sized
<1> QED
  BY <1>4, <1>5, <1>6, <1>7

\* A new stack or the queues are in a page of their own.
LEMMA SystemBlocks ==
  ASSUME TypeInv, NEW id, Asked(id), NEW s \in Nat, s + HEADER < PAGE_SIZE,
         NEW b, NEW home, NEW end, NEW top, Blocks(b, home, end, top),
         Below(mem, b, home, end, top),
         NEW q \in 0 .. SYSPAGES - 1, Addr(q) \in mem.free,
         \A p \in 0 .. SYSPAGES - 1 : p < q => Addr(p) \notin mem.free,
         \A p \in 0 .. SYSPAGES - 1 :
           Addr(p) \in mem'.free <=> Addr(p) \in mem.free /\ p # q,
         blocks' = blocks \cup {Block(id, Addr(q), s)}, process = "up"
  PROVE  Blocks(b, home, end, top)'
<1> SUFFICES ASSUME SystemPagesLeft'
             PROVE  /\ NoOverlap'
                    /\ \A c \in blocks' : InSystem(c)' \/ InRun(c, b, home, end, top)
                    /\ process' = "up" =>
                         \A p \in 0 .. SYSPAGES - 1 : Addr(p) \in mem'.free <=> Used' <= p
  BY DEF Blocks, InRun, Live
<1>1. SystemPagesLeft
  BY Sized DEF SystemPagesLeft, TypeInv, TypeOK, Asked
<1>2. /\ NoOverlap /\ \A c \in blocks : InSystem(c) \/ InRun(c, b, home, end, top)
      /\ \A p \in 0 .. SYSPAGES - 1 : Addr(p) \in mem.free <=> Used <= p
  BY <1>1 DEF Blocks
<1>3. /\ b \in Nat /\ IsMemory(mem)
      /\ blocks \subseteq [thread : Thread \cup {Nobody}, from : 0 .. MemSize, to : Nat]
  BY Sized DEF Below, TypeInv, TypeOK
<1> DEFINE nb == Block(id, Addr(q), s)
<1>4. /\ nb.from = Addr(q) + DATA /\ nb.to = Addr(q) + DATA + s /\ blocks' = blocks \cup {nb}
  BY DEF Block
<1> HIDE DEF nb
<1>5. /\ q \in Nat /\ q + 1 <= SYSPAGES /\ Addr(q) \in Nat /\ Addr(q + 1) = Addr(q) + PAGE_SIZE
      /\ Addr(SYSPAGES) \in Nat /\ Addr(q + 1) <= Addr(SYSPAGES)
  <2>1. q \in Nat /\ q + 1 \in Nat /\ q + 1 <= SYSPAGES
    BY Sized
  <2> QED
    BY <2>1, AddrNext, AddrOrder, Sized
<1>6. /\ nb.from \in Nat /\ nb.to \in Nat /\ Addr(q) <= nb.from
      /\ nb.from < Addr(q + 1) /\ nb.to <= Addr(q + 1)
  BY <1>4, <1>5, Sized
<1>7. ASSUME NEW c \in blocks PROVE c.to <= nb.from \/ nb.to <= c.from
  <2>0. c.to \in Nat /\ c.from \in Nat
    BY <1>3, MemoryEnds
  <2>1. CASE InSystem(c)
    <3>1. PICK p \in 0 .. SYSPAGES - 1 :
            Addr(p) \notin mem.free /\ Addr(p) <= c.from /\ c.to <= Addr(p + 1)
      BY <2>1 DEF InSystem
    <3>2. p \in Nat /\ p + 1 \in Nat /\ p # q
      BY <3>1, Sized
    <3>3. Addr(p) \in Nat /\ Addr(p + 1) \in Nat
      BY <3>2, AddrOrder
    <3>4. CASE p < q
      <4>1. Addr(p + 1) <= Addr(q)
        <5>1. p + 1 <= q
          BY <1>5, <3>2, <3>4
        <5> QED
          BY <1>5, <3>2, <5>1, AddrOrder
      <4> QED
        BY <1>5, <1>6, <2>0, <3>1, <3>3, <4>1
    <3>5. CASE q < p
      <4>1. Addr(q + 1) <= Addr(p)
        <5>1. Addr(q) + PAGE_SIZE <= Addr(p)
          BY <1>5, <3>2, <3>5, AddrOrder
        <5> QED
          BY <1>5, <5>1
      <4> QED
        BY <1>5, <1>6, <2>0, <3>1, <3>3, <4>1, Sized
    <3> QED
      BY <1>5, <3>2, <3>4, <3>5
  <2>2. CASE InRun(c, b, home, end, top)
    <3>1. c.thread \in Thread /\ Live(b, home, end, c.thread) /\ Addr(home[c.thread]) <= c.from
      BY <2>2 DEF InRun
    <3>2. home[c.thread] \in Nat /\ SYSPAGES <= home[c.thread]
      BY <1>3, <3>1, LiveIs
    <3>3. Addr(SYSPAGES) <= Addr(home[c.thread]) /\ Addr(home[c.thread]) \in Nat
      BY <3>2, AddrOrder, Sized
    <3> QED
      BY <1>5, <1>6, <2>0, <3>1, <3>3, Sized
  <2> QED
    BY <1>2, <2>1, <2>2
<1>8. NoOverlap'
  <2>1. ASSUME NEW x \in blocks', NEW y \in blocks', x # y
        PROVE  x.to <= y.from \/ y.to <= x.from
    BY <1>2, <1>4, <1>7, <2>1 DEF NoOverlap
  <2> QED
    BY <2>1 DEF NoOverlap
<1>9. ASSUME NEW c \in blocks' PROVE InSystem(c)' \/ InRun(c, b, home, end, top)
  <2>1. CASE c = nb
    BY <1>6, <2>1 DEF InSystem
  <2>2. CASE c \in blocks /\ InSystem(c)
    BY <2>2 DEF InSystem
  <2> QED
    BY <1>2, <1>4, <2>1, <2>2
<1>10. \A p \in 0 .. SYSPAGES - 1 : Addr(p) \in mem'.free <=> Used' <= p
  BY <1>2, NextSystemPage
<1> QED
  BY <1>8, <1>9, <1>10

\* The new thread's stack comes after Main's first block.
LEMMA AskMainFirst ==
  ASSUME TypeInv, NEW id, Asked(id), NEW h, NEW s, blocks' = blocks \cup {Block(id, h, s)},
         mem'.owner[SYSPAGES] = mem.owner[SYSPAGES], NEW b, MainFirst(b)
  PROVE  MainFirst(b)'
<1>1. Block(id, h, s).thread = id
  BY DEF Block
<1>2. nodeID \in Nat
  BY Sized DEF TypeInv, TypeOK
<1>3. CASE \E c \in blocks : c.thread = Main
  BY <1>3 DEF MainFirst
<1>4. CASE ~\E c \in blocks : c.thread = Main
  <2>1. id = Nobody /\ nodeID' = nodeID
    BY <1>4 DEF Asked
  <2>2. ~\E c \in blocks' : c.thread = Main
    BY <1>1, <1>4, <2>1 DEF Main, Nobody
  <2> QED
    BY <2>1, <2>2 DEF MainFirst
<1> QED
  BY <1>3, <1>4

\* A request that finds a free system page.
LEMMA AskFree ==
  ASSUME TypeInv, TypeInv', CallsInv, InOrder,
         NEW id \in Thread \cup {Nobody}, Asked(id),
         NEW s \in Nat, 0 < s, s + HEADER < PAGE_SIZE, SystemRequest(id, s),
         process' = "up", FreeSystemPages # {}
  PROVE  InOrder'
<1>0. PICK q : q = SystemPage
  OBVIOUS
<1> DEFINE m == [mem EXCEPT !.owner[q] = id]
<1>1. m = [mem EXCEPT !.owner[SystemPage] = id]
  BY <1>0
<1>2. /\ q \in 0 .. SYSPAGES - 1 /\ Addr(q) \in mem.free /\ SystemAccount = q
      /\ \A p \in 0 .. SYSPAGES - 1 : p < q => Addr(p) \notin mem.free
  BY <1>0, SystemPageIs
<1>3. /\ IsMemory(m) /\ m.owner = [mem.owner EXCEPT ![q] = id]
      /\ m.remaining = mem.remaining /\ m.free = mem.free /\ m.next = mem.next
  BY <1>0, SystemMemory
<1> HIDE DEF m
<1>4. /\ process = "up" /\ \A u \in Thread : pc'[u] # "push"
      /\ ~Faults(m, Main, Addr(q), s, q)
      /\ mem' = memPush(m, Main, Addr(q), s, q)
      /\ blocks' = blocks \cup {Block(id, Addr(q), s)}
  BY <1>0, <1>1, <1>2, AskIs
<1>5. IsMemory(mem) /\ IsMemory(mem')
  BY DEF TypeInv
<1>6. m.remaining[q] = PAGE_SIZE - HEADER /\ SystemFresh
  BY <1>2, <1>3 DEF InOrder, SystemFresh
<1> DEFINE x == mem'
<1>7. IsMemory(x) /\ x = memPush(m, Main, Addr(q), s, q)
  BY <1>4, <1>5
<1> HIDE DEF x
<1>8. \A p \in 0 .. SYSPAGES - 1 :
        /\ Addr(p) \in x.free <=> Addr(p) \in m.free /\ p # q
        /\ p # q => x.remaining[p] = m.remaining[p]
  BY <1>2, <1>3, <1>4, <1>6, <1>7, SystemTaken
<1>9. SystemFresh'
  BY <1>3, <1>6, <1>8 DEF SystemFresh, x
<1>10. ASSUME NEW b, NEW home, NEW end, NEW top, Below(mem, b, home, end, top), MainFirst(b)
       PROVE  /\ Below(x, b, home, end, top) /\ MainFirst(b)'
              /\ Fresh(mem, b, home, end) => Fresh(x, b, home, end)
              /\ Fallen(mem, b, home, end, top) => Fallen(x, b, home, end, top)
  <2>1. /\ Below(m, b, home, end, top)
        /\ Fresh(mem, b, home, end) => Fresh(m, b, home, end)
        /\ Fallen(mem, b, home, end, top) => Fallen(m, b, home, end, top)
        /\ m.owner[SYSPAGES] = mem.owner[SYSPAGES]
    BY <1>2, <1>3, <1>5, <1>10, OwnedAside
  <2>2. /\ Below(x, b, home, end, top)
        /\ Fresh(m, b, home, end) => Fresh(x, b, home, end)
        /\ Fallen(m, b, home, end, top) => Fallen(x, b, home, end, top)
        /\ x.owner[SYSPAGES] = m.owner[SYSPAGES]
    <3>1. /\ q \in 0 .. SYSPAGES - 1 /\ IsMemory(m) /\ m.remaining[q] = PAGE_SIZE - HEADER
          /\ ~Faults(m, Main, Addr(q), s, q)
          /\ IsMemory(x) /\ x = memPush(m, Main, Addr(q), s, q)
          /\ Below(m, b, home, end, top)
      BY <1>2, <1>3, <1>4, <1>6, <1>7, <2>1
    <3> QED
      BY ONLY <3>1, 0 < s, s + HEADER < PAGE_SIZE, s \in Nat, SystemAside
  <2>3. MainFirst(b)'
    BY <1>4, <1>10, <2>1, <2>2, AskMainFirst DEF x
  <2> QED
    BY <2>1, <2>2, <2>3
<1>11. ASSUME NEW b, NEW home, NEW end, NEW top, Good(b, home, end, top)
       PROVE  Good(b, home, end, top)'
  <2>1. Below(mem, b, home, end, top) /\ Fresh(mem, b, home, end) /\ MainFirst(b)
        /\ Blocks(b, home, end, top)
    BY <1>11 DEF Good
  <2>2. Below(x, b, home, end, top) /\ Fresh(x, b, home, end) /\ MainFirst(b)'
    BY <1>10, <2>1
  <2>3. \A p \in 0 .. SYSPAGES - 1 : Addr(p) \in mem'.free <=> Addr(p) \in mem.free /\ p # q
    BY <1>3, <1>8 DEF x
  <2>4. Blocks(b, home, end, top)'
    BY <1>2, <1>4, <2>1, <2>3, SystemBlocks
  <2> QED
    BY <1>4, <2>2, <2>4 DEF Good, x
<1>12. ASSUME NEW b, NEW home, NEW end, NEW top, Spoilt(b, home, end, top)
       PROVE  Spoilt(b, home, end, top)'
  <2>1. Below(mem, b, home, end, top) /\ Fallen(mem, b, home, end, top) /\ MainFirst(b)
    BY <1>12 DEF Spoilt
  <2>2. Below(x, b, home, end, top) /\ Fallen(x, b, home, end, top) /\ MainFirst(b)'
    BY <1>10, <2>1
  <2>3. Local(b, home, end, top)'
    BY <1>4 DEF Local
  <2> QED
    BY <2>2, <2>3 DEF Spoilt, x
<1> QED
  BY <1>9, <1>11, <1>12 DEF InOrder

\* When the system pages are used up, there are as many threads.
LEMMA UsedUp ==
  ASSUME TypeInv, NEW id, Asked(id), process = "up",
         NEW b, NEW home, NEW end, NEW top, Blocks(b, home, end, top), MainFirst(b),
         \A p \in 0 .. SYSPAGES - 1 : Addr(p) \notin mem.free
  PROVE  ~SystemPagesLeft' /\ SYSPAGES < b
<1>1. nodeID \in Nat
  BY Sized DEF TypeInv, TypeOK
<1>2. ASSUME SystemPagesLeft PROVE SYSPAGES <= Used
  <2>1. Used \in Nat
    BY <1>1 DEF Used
  <2>2. PICK u \in Nat : u = Used
    BY <2>1
  <2>3. CASE u < SYSPAGES
    <3>1. u \in 0 .. SYSPAGES - 1 /\ u <= u
      BY <2>3, Sized
    <3>2. Addr(u) \in mem.free
      BY <1>2, <2>2, <3>1 DEF Blocks
    <3> QED
      BY <3>1, <3>2
  <2> QED
    BY <2>2, <2>3, Sized
<1>3. CASE id = Nobody /\ nodeID' = nodeID /\ \A c \in blocks : c.thread # Nobody
  <2>1. Used = nodeID
    BY <1>1, <1>3 DEF Used
  <2>2. ~SystemPagesLeft
    BY <1>1, <1>2, <2>1, Sized DEF SystemPagesLeft
  <2>3. SYSPAGES <= nodeID
    BY <1>1, <2>2, Sized DEF SystemPagesLeft
  <2> QED
    BY <1>1, <1>3, <2>3, Sized DEF SystemPagesLeft, MainFirst
<1>4. CASE /\ nodeID' = nodeID + 1
           /\ \E c \in blocks : c.thread = Nobody
           /\ \E c \in blocks : c.thread = Main
  <2>1. Used = nodeID + 1
    BY <1>1, <1>4 DEF Used
  <2>2. SYSPAGES <= nodeID + 1
    BY <1>1, <1>2, <2>1, Sized DEF SystemPagesLeft
  <2> QED
    BY <1>1, <1>4, <2>2, Sized DEF SystemPagesLeft, MainFirst
<1> QED
  BY <1>3, <1>4 DEF Asked

\* The page SYSPAGES, whose account is charged then, is Main's first.
LEMMA MainHome ==
  ASSUME TypeInv, NEW b, NEW home, NEW end, NEW top, Below(mem, b, home, end, top),
         MainFirst(b), SYSPAGES < b
  PROVE  Live(b, home, end, Main) /\ home[Main] = SYSPAGES
<1>1. mem.owner[SYSPAGES] = Main /\ Main \in Thread
  BY Pages DEF MainFirst
<1>2. b \in Nat /\ SYSPAGES \in SYSPAGES .. b - 1
  BY Sized DEF Below
<1>3. home[Main] <= SYSPAGES /\ SYSPAGES < end[Main]
  BY <1>1, <1>2 DEF Below, Runs
<1>4. home[Main] \in Nat /\ end[Main] \in Nat /\ SYSPAGES <= home[Main]
  BY <1>1, Sized DEF Below
<1> QED
  BY <1>2, <1>3, <1>4, Sized DEF Live

\* The new header is in the page 0, whose own is not free either.
LEMMA UsedUpFresh ==
  ASSUME NEW m, IsMemory(m), NEW c, NEW x, NEW taken, NEW i, NEW a, NEW s \in Nat, NEW q,
         q = 0, 0 < s, s + HEADER < PAGE_SIZE,
         Charged(c, m, Main, i, taken, a), Extended(x, c, Addr(q), Addr(q) + DATA + s),
         \A p \in 0 .. SYSPAGES - 1 : Addr(p) \notin m.free
  PROVE  /\ \A p \in 0 .. SYSPAGES - 1 : Addr(p) \notin x.free
         /\ Addr(q) + DATA + s < Addr(SYSPAGES) /\ ~IsPageAddr(Addr(q) + DATA + s)
         /\ Addr(q) + DATA + s \in Nat /\ Addr(q) < Addr(q) + DATA + s
<1> DEFINE curr == Addr(q) + DATA + s
<1>1. /\ q \in Nat /\ Addr(q) \in Nat /\ Addr(q + 1) = Addr(q) + PAGE_SIZE
      /\ Addr(SYSPAGES) \in Nat /\ Addr(q) + PAGE_SIZE <= Addr(SYSPAGES)
  BY AddrNext, AddrOrder, Sized
<1>2. curr \in Nat /\ Addr(q) < curr /\ curr < Addr(q + 1) /\ curr < Addr(SYSPAGES)
  BY <1>1, Sized
<1> HIDE DEF curr
<1>3. ~IsPageAddr(curr)
  BY <1>1, <1>2, WithinPage
<1>4. ASSUME NEW p \in 0 .. SYSPAGES - 1 PROVE Addr(p) \notin x.free
  <2>1. Addr(p) # curr
    BY <1>3, Pages DEF IsPageAddr
  <2>2. x.free = (c.free \cup {curr}) \ {Addr(q)} /\ c.free \subseteq m.free
    BY DEF Charged, Extended, curr
  <2> QED
    BY <2>1, <2>2
<1> QED
  BY <1>2, <1>3, <1>4 DEF curr

\* A request that finds none: it gets a piece of the page 0, and the account
\* of Main's first page is charged.
LEMMA AskUsedUp ==
  ASSUME TypeInv, TypeInv', CallsInv, InOrder, NoDeficit',
         NEW id \in Thread \cup {Nobody}, Asked(id),
         NEW s \in Nat, 0 < s, s + HEADER < PAGE_SIZE, SystemRequest(id, s),
         process' = "up", FreeSystemPages = {}
  PROVE  InOrder'
<1>0. PICK q : q = SystemPage
  OBVIOUS
<1> DEFINE m == [mem EXCEPT !.owner[q] = id]
<1>1. m = [mem EXCEPT !.owner[SystemPage] = id]
  BY <1>0
<1>2. /\ q = 0 /\ q \in 0 .. SYSPAGES - 1 /\ SystemAccount = SYSPAGES
      /\ \A p \in 0 .. SYSPAGES - 1 : Addr(p) \notin mem.free
  BY <1>0, SystemPageIs DEF SystemPage, SystemAccount
<1>3. /\ IsMemory(m) /\ m.owner = [mem.owner EXCEPT ![q] = id]
      /\ m.remaining = mem.remaining /\ m.free = mem.free /\ m.next = mem.next
      /\ Addr(q) \in DOMAIN m.next
  BY <1>0, SystemMemory
<1> HIDE DEF m
<1>4. /\ process = "up" /\ \A u \in Thread : pc'[u] # "push"
      /\ ~Faults(m, Main, Addr(q), s, SYSPAGES)
      /\ mem' = memPush(m, Main, Addr(q), s, SYSPAGES)
      /\ blocks' = blocks \cup {Block(id, Addr(q), s)}
  BY <1>0, <1>1, <1>2, AskIs
<1>5. IsMemory(mem) /\ IsMemory(mem')
  BY DEF TypeInv
<1>6. 0 <= mem'.remaining[SYSPAGES]
  BY <1>5, CoveredIs, Pages DEF NoDeficit
<1> DEFINE x == mem'
           taken == Claimed(m, Main, s, SYSPAGES)
           a == AccountAfter(m.remaining[SYSPAGES], s, Cardinality(taken))
           curr == Addr(q) + DATA + s
<1>7. IsMemory(x) /\ x = memPush(m, Main, Addr(q), s, SYSPAGES) /\ 0 <= x.remaining[SYSPAGES]
  BY <1>4, <1>5, <1>6
<1> HIDE DEF x
<1>8. PICK c : /\ IsMemory(c) /\ Charged(c, m, Main, SYSPAGES, taken, a)
               /\ Extended(x, c, Addr(q), curr)
  <2>1. SYSPAGES \in Page /\ Main \in Thread
    BY Pages
  <2> QED
    BY ONLY <1>3, <1>4, <1>7, <2>1, s \in Nat, PushesInTwo
<1>9. a = AccountAfter(m.remaining[SYSPAGES], s, Cardinality(taken))
      /\ taken = Claimed(m, Main, s, SYSPAGES) /\ curr = Addr(q) + DATA + s
  OBVIOUS
<1> HIDE DEF taken, a
<1>10. /\ \A p \in 0 .. SYSPAGES - 1 : Addr(p) \notin x.free
       /\ curr < Addr(SYSPAGES) /\ ~IsPageAddr(curr) /\ curr \in Nat /\ Addr(q) < curr
  BY <1>2, <1>3, <1>8, UsedUpFresh
<1> HIDE DEF curr
<1>11. SystemFresh'
  BY <1>10 DEF SystemFresh, x
<1>12. Addr(q) \in DOMAIN c.next
  BY <1>2, <1>8, Pages DEF IsMemory
<1>13. ASSUME NEW b, NEW home, NEW end, NEW top,
              Below(mem, b, home, end, top), MainFirst(b), SYSPAGES < b
       PROVE  /\ Below(m, b, home, end, top)
              /\ Fresh(mem, b, home, end) => Fresh(m, b, home, end)
              /\ Fallen(mem, b, home, end, top) => Fallen(m, b, home, end, top)
              /\ \A upTo : SYSPAGES < upTo => MainFirst(upTo)'
  <2>1. /\ Below(m, b, home, end, top)
        /\ Fresh(mem, b, home, end) => Fresh(m, b, home, end)
        /\ Fallen(mem, b, home, end, top) => Fallen(m, b, home, end, top)
        /\ m.owner[SYSPAGES] = mem.owner[SYSPAGES]
    BY <1>2, <1>3, <1>5, <1>13, OwnedAside
  <2>2. SYSPAGES \in UserPage /\ SYSPAGES \in Page
    BY Pages
  <2>3. x.owner[SYSPAGES] = m.owner[SYSPAGES]
    <3>1. PICK i, h : i = SYSPAGES /\ h = Addr(q)
      OBVIOUS
    <3>2. /\ IsMemory(m) /\ x = memPush(m, Main, h, s, i) /\ SYSPAGES < b
          /\ i \in UserPage /\ Below(m, b, home, end, top)
      BY <1>3, <1>7, <1>13, <2>1, <2>2, <3>1
    <3> QED
      BY ONLY <2>2, <3>2, s \in Nat, OwnersKept
  <2>4. MainFirst(b)'
    BY <1>4, <1>13, <2>1, <2>3, AskMainFirst DEF x
  <2>5. ASSUME NEW upTo, SYSPAGES < upTo PROVE MainFirst(upTo)'
    BY <1>13, <2>4, <2>5 DEF MainFirst
  <2> QED
    BY <2>1, <2>5
<1>14. ASSUME NEW b, NEW home, NEW end, NEW top, Good(b, home, end, top)
       PROVE  InOrder'
  <2>1. Below(mem, b, home, end, top) /\ Fresh(mem, b, home, end) /\ MainFirst(b)
        /\ Blocks(b, home, end, top)
    BY <1>14 DEF Good
  <2>2. ~SystemPagesLeft' /\ SYSPAGES < b
    BY <1>2, <1>4, <2>1, UsedUp
  <2>3. Live(b, home, end, Main) /\ home[Main] = SYSPAGES /\ Main \in Thread
    BY <2>1, <2>2, MainHome, Pages
  <2>4. Below(m, b, home, end, top) /\ Fresh(m, b, home, end)
    BY <1>13, <2>1, <2>2
  <2>5. PICK upTo, ends : Charge(c, b, home, end, top, Main, a, s, upTo, ends)
    <3>1. /\ a = AccountAfter(m.remaining[home[Main]], s,
                              Cardinality(Claimed(m, Main, s, home[Main])))
          /\ Charged(c, m, Main, home[Main], Claimed(m, Main, s, home[Main]), a)
      BY <1>8, <1>9, <2>3
    <3> QED
      BY ONLY <1>3, <1>8, <2>3, <2>4, <3>1, s \in Nat, ChargeGood
  <2>6. /\ Below(c, upTo, home, ends, top) /\ Fresh(c, upTo, home, ends) /\ b <= upTo
    BY <2>5 DEF Charge
  <2>7. b \in Nat /\ upTo \in Nat /\ SYSPAGES <= upTo /\ SYSPAGES < upTo
    BY <2>1, <2>2, <2>6, Sized DEF Below
  <2>8. Below(x, upTo, home, ends, top)
    BY ONLY <1>7, <1>8, <1>10, <1>12, <2>6, ExtendElsewhere
  <2>9. Fresh(x, upTo, home, ends)
    BY ONLY <1>8, <1>10, <1>12, <2>6, <2>7, ExtendFresh
  <2>10. MainFirst(upTo)'
    BY <1>13, <2>1, <2>2, <2>7
  <2>11. Blocks(upTo, home, ends, top)'
    BY <2>2 DEF Blocks
  <2>12. Good(upTo, home, ends, top)'
    BY <1>4, <2>8, <2>9, <2>10, <2>11 DEF Good, x
  <2> QED
    BY <1>11, <2>12 DEF InOrder
<1>15. ASSUME NEW b, NEW home, NEW end, NEW top, Spoilt(b, home, end, top)
       PROVE  InOrder'
  <2>1. Below(mem, b, home, end, top) /\ Fallen(mem, b, home, end, top) /\ MainFirst(b)
    BY <1>15 DEF Spoilt
  <2>2. SYSPAGES < b
    <3>1. PICK o \in Thread : home[o] < b
      BY <2>1 DEF Fallen
    <3>2. home[o] \in SYSPAGES .. TOTALPAGES /\ b \in SYSPAGES .. TOTALPAGES
      BY <2>1 DEF Below
    <3> QED
      BY <3>1, <3>2, Sized
  <2>3. Live(b, home, end, Main) /\ home[Main] = SYSPAGES /\ Main \in Thread
    BY <2>1, <2>2, MainHome, Pages
  <2>4. Below(m, b, home, end, top) /\ Fallen(m, b, home, end, top)
    BY <1>13, <2>1, <2>2
  <2>5. Addr(q) + DATA + s < Addr(SYSPAGES)
    BY <1>9, <1>10
  <2>6. PICK upTo, tops : SpoiltNow(x, home, tops, upTo, end)
    <3>1. SYSPAGES \in UserPage
      BY Pages
    <3> QED
      BY ONLY <1>3, <1>4, <1>7, <2>3, <2>4, <2>5, <3>1, s \in Nat, SpoiltPush
  <2>7. Local(upTo, home, end, tops)'
    BY <1>4 DEF Local
  <2>8. Spoilt(upTo, home, end, tops)'
    BY <1>13, <2>1, <2>2, <2>6, <2>7 DEF Spoilt, SpoiltNow, x
  <2> QED
    BY <1>11, <2>8 DEF InOrder
<1> QED
  BY <1>14, <1>15 DEF InOrder

LEMMA AskInOrder ==
  ASSUME TypeInv, TypeInv', CallsInv, InOrder, NoDeficit', initQueue \/ CreateThread
  PROVE  InOrder'
<1>1. PICK id \in Thread \cup {Nobody}, s \in Nat :
        /\ SystemRequest(id, s) /\ 0 < s /\ s + HEADER < PAGE_SIZE /\ Asked(id)
  BY RequestIs DEF Asked
<1>2. /\ process = "up" /\ \A u \in Thread : pc'[u] # "push"
      /\ process' = "up" \/ (mem' = mem /\ blocks' = blocks)
  <2>1. PICK m : m = [mem EXCEPT !.owner[SystemPage] = id]
    OBVIOUS
  <2> QED
    BY <1>1, <2>1, AskIs
<1>3. CASE process' # "up"
  BY <1>1, <1>2, <1>3, Idle DEF Asked
<1>4. CASE process' = "up"
  BY <1>1, <1>4, AskFree, AskUsedUp
<1> QED
  BY <1>3, <1>4

-----------------------------------------------------------------------------
(* The invariant. *)

LEMMA InitInOrder ==
  ASSUME Init
  PROVE  PagesInv
<1> DEFINE home == [t \in Thread |-> TOTALPAGES]
           top == [t \in Thread |-> 0]
           b == SYSPAGES
<1>1. IsMemory(mem)
  BY InitTypes DEF TypeInv
<1>2. /\ mem.owner = [p \in Page |-> Nobody]
      /\ mem.remaining = [p \in Page |-> PAGE_SIZE - HEADER]
      /\ mem.free = {Addr(p) : p \in Page}
      /\ mem.next = [h \in {Addr(p) : p \in Page} |-> NoNext]
  BY DEF Init, initMemory
<1>3. \A h \in DOMAIN mem.next : mem.next[h] = NoNext /\ IsPageAddr(h)
  BY <1>2 DEF IsPageAddr
<1>4. /\ home \in [Thread -> SYSPAGES .. TOTALPAGES] /\ b \in SYSPAGES .. TOTALPAGES
      /\ \A t \in Thread : ~(home[t] < home[t]) /\ ~(home[t] < b)
  BY Sized
<1>5. top \in [Thread -> Address]
  BY MemoryEnds, Pages, Sized DEF Address, MemSize, Page
<1>6. NoNext \notin {Addr(p) : p \in Page}
  <2>1. \A p \in Page : Addr(p) \in Nat
    BY MemoryEnds DEF Address
  <2> QED
    BY <2>1 DEF NoNext
<1>7. ~IsPageAddr(NoNext)
  BY <1>6 DEF IsPageAddr
<1> HIDE DEF home, top
<1>8. Below(mem, b, home, home, top)
  <2>1. Runs(mem, b, home, home)
    BY <1>4, Sized DEF Runs
  <2>2. Chains(mem, b, home, home, top)
    BY <1>3, <1>4 DEF Chains, Live
  <2>3. Climbs(mem)
    BY <1>3 DEF Climbs
  <2> QED
    BY <1>4, <1>5, <2>1, <2>2, <2>3 DEF Below
<1>9. Fresh(mem, b, home, home)
  <2>1. \A p \in b .. TOTALPAGES - 1 : p \in Page
    BY Sized DEF Page
  <2> QED
    BY <1>2, <1>3, <1>4, <1>7, <2>1 DEF Fresh
<1>10. blocks = {} /\ nodeID = 0 /\ \A t \in Thread : pc[t] = "user"
  BY DEF Init
<1>11. MainFirst(b)
  BY <1>10, Sized DEF MainFirst
<1>12. Blocks(b, home, home, top)
  <2>1. Used = 0
    BY <1>10 DEF Used
  <2>2. \A q \in 0 .. SYSPAGES - 1 : Addr(q) \in mem.free /\ 0 <= q
    BY <1>2, Pages
  <2> QED
    BY <1>10, <2>1, <2>2 DEF Blocks, NoOverlap
<1>13. Good(b, home, home, top)
  BY <1>8, <1>9, <1>10, <1>11, <1>12 DEF Good
<1>14. SystemFresh
  BY <1>2, Pages DEF SystemFresh
<1>15. CallsInv
  BY <1>10 DEF CallsInv, Calls, Init
<1> QED
  BY <1>13, <1>14, <1>15 DEF PagesInv, InOrder

LEMMA InOrderStep ==
  ASSUME TypeInv, TypeInv', CallsInv, InOrder, NoDeficit', [Next]_vars
  PROVE  InOrder'
<1>1. CASE UNCHANGED vars
  BY <1>1, Idle DEF vars
<1>2. ASSUME NEW t \in Thread, Malloc(t) PROVE InOrder'
  <2>1. \A u \in Thread : pc'[u] = "push" => pc[u] = "push"
    BY <1>2 DEF Malloc, TypeInv, TypeOK
  <2> QED
    BY <1>2, <2>1, Idle DEF Malloc
<1>3. ASSUME NEW t \in Thread, TakePage(t) PROVE InOrder'
  <2>1. SystemFresh'
    BY <1>3, FindFresh DEF CallsInv, InOrder
  <2>2. ASSUME NEW b, NEW home, NEW end, NEW top, Good(b, home, end, top)
        PROVE  InOrder'
    BY <1>3, <2>1, <2>2, FindGood DEF InOrder
  <2>3. ASSUME NEW b, NEW home, NEW end, NEW top, Spoilt(b, home, end, top)
        PROVE  InOrder'
    BY <1>3, <2>1, <2>3, FindSpoilt DEF CallsInv, InOrder
  <2> QED
    BY <2>2, <2>3 DEF InOrder
<1>8. ASSUME NEW t \in Thread, FindPage(t) PROVE InOrder'
  <2>1. \A u \in Thread : pc'[u] = "push" => pc[u] = "push" /\ u # t
    BY <1>8 DEF FindPage, At, TypeInv, TypeOK
  <2>2. \A u \in Thread : u # t => page'[u] = page[u]
    BY <1>8 DEF FindPage, TypeInv, TypeOK
  <2> QED
    BY <1>8, <2>1, <2>2, Idle DEF FindPage
<1>4. ASSUME NEW t \in Thread, NoPageLeft(t) PROVE InOrder'
  BY <1>4, Idle DEF NoPageLeft
<1>5. ASSUME NEW t \in Thread, MemPush(t) PROVE InOrder'
  <2>1. CASE process' = "up"
    <3>1. Calls /\ SystemFresh
      BY DEF CallsInv, InOrder
    <3>2. ASSUME NEW b, NEW home, NEW end, NEW top, Good(b, home, end, top)
          PROVE  InOrder'
      BY <1>5, <2>1, <3>1, <3>2, PushGood
    <3>3. ASSUME NEW b, NEW home, NEW end, NEW top, Spoilt(b, home, end, top)
          PROVE  InOrder'
      BY <1>5, <2>1, <3>1, <3>3, PushSpoilt
    <3> QED
      BY <3>2, <3>3 DEF InOrder
  <2>2. CASE process' # "up"
    <3>1. process = "up"
      BY <1>5 DEF MemPush, At
    <3>2. /\ mem' = mem /\ blocks' = blocks /\ nodeID' = nodeID
          /\ \A u \in Thread : pc'[u] # "push"
      BY <1>5, <2>2, <3>1, PushStepIs DEF CallsInv
    <3> QED
      BY <2>2, <3>2, Idle
  <2> QED
    BY <2>1, <2>2
<1>6. CASE initQueue \/ CreateThread
  BY <1>6, AskInOrder
<1>7. CASE Switch
  BY <1>7, Idle DEF Switch
<1> QED
  BY <1>1, <1>2, <1>3, <1>4, <1>5, <1>6, <1>7, <1>8 DEF Next, TakePage

LEMMA PagesStep ==
  ASSUME ~AlarmAnywhere, TypeInv, PagesInv, [Next]_vars
  PROVE  PagesInv'
<1>1. TypeInv' /\ CallsInv'
  BY NextTypes, CallsStep DEF PagesInv
<1>2. ASSUME NoDeficit' PROVE InOrder'
  BY <1>1, <1>2, DeficitStays, InOrderStep DEF PagesInv
<1> QED
  BY <1>1, <1>2 DEF PagesInv

LEMMA PagesInvariance ==
  ASSUME ~AlarmAnywhere
  PROVE  Spec => [](TypeInv /\ PagesInv)
<1>1. Init => TypeInv /\ PagesInv
  BY InitTypes, InitInOrder
<1>2. TypeInv /\ PagesInv /\ [Next]_vars => (TypeInv /\ PagesInv)'
  BY NextTypes, PagesStep
<1> QED
  BY <1>1, <1>2, PTL DEF Spec

-----------------------------------------------------------------------------
(* What follows from it. *)

\* As long as no header has fallen on that of a page, all is well.
LEMMA SoundIsGood ==
  ASSUME TypeInv, PagesInv, Sound
  PROVE  SystemFresh /\ \E b, home, end, top : Good(b, home, end, top)
<1>1. InOrder /\ PageHeadersApart
  BY DEF Sound, PagesInv
<1>2. ASSUME NEW b, NEW home, NEW end, NEW top, Spoilt(b, home, end, top) PROVE FALSE
  <2>1. Below(mem, b, home, end, top) /\ Fallen(mem, b, home, end, top) /\ IsMemory(mem)
    BY <1>2 DEF Spoilt, TypeInv
  <2>2. PICK o \in Thread : /\ home[o] < b /\ b < end[o] /\ mem.next[top[o]] = Addr(b)
    BY <2>1 DEF Fallen
  <2>3. b \in Nat /\ home[o] \in Nat /\ end[o] \in Nat /\ b \in Page
    BY <2>1, Sized DEF Below, Fallen, Page
  <2>4. Live(b, home, end, o)
    BY <2>2, <2>3 DEF Live
  <2>5. top[o] \in DOMAIN mem.next
    BY <2>1, <2>4, LiveIs
  <2> QED
    BY <1>1, <2>2, <2>3, <2>5 DEF PageHeadersApart
<1> QED
  BY <1>1, <1>2 DEF InOrder

\* The pages of a thread are those from home to end.
LEMMA OwnedIs ==
  ASSUME TypeInv, NEW b, NEW home, NEW end, NEW top, Below(mem, b, home, end, top),
         Fresh(mem, b, home, end), NEW t \in Thread, NEW p \in UserPage, mem.owner[p] = t
  PROVE  p < b /\ home[t] <= p /\ p < end[t] /\ Live(b, home, end, t) /\ end[t] <= b
<1>1. /\ b \in Nat /\ SYSPAGES <= b /\ p \in Nat /\ SYSPAGES <= p /\ p < TOTALPAGES
      /\ home[t] \in Nat /\ end[t] \in Nat
  BY Sized DEF Below, UserPage
<1>2. p < b
  <2>1. CASE b <= p
    <3>1. p \in b .. TOTALPAGES - 1
      BY <1>1, <2>1, Sized
    <3>2. t # Nobody
      BY Sized DEF Thread, Nobody
    <3> QED
      BY <3>1, <3>2 DEF Fresh
  <2> QED
    BY <1>1, <2>1
<1>3. home[t] <= p /\ p < end[t]
  <2>1. p \in SYSPAGES .. b - 1
    BY <1>1, <1>2, Sized
  <2> QED
    BY <2>1 DEF Below, Runs
<1>4. home[t] < end[t] /\ home[t] < b
  BY <1>1, <1>2, <1>3
<1> QED
  BY <1>2, <1>3, <1>4 DEF Live, Fresh

LEMMA Covers ==
  ASSUME TypeInv, NEW b, NEW home, NEW end, NEW top, Below(mem, b, home, end, top),
         Fresh(mem, b, home, end), NEW t \in Thread, Owns(t) # {}
  PROVE  mem.remaining[Home(t)] <= RunEnd(t) - ChainTop(t)
<1>1. PICK p \in UserPage : mem.owner[p] = t
  BY DEF Owns
<1>2. Live(b, home, end, t) /\ end[t] <= b /\ IsMemory(mem)
  BY <1>1, OwnedIs DEF TypeInv
<1>3. /\ home[t] \in UserPage /\ home[t] \in Page /\ mem.owner[home[t]] = t
      /\ b \in Nat /\ home[t] \in Nat /\ end[t] \in Nat /\ home[t] < end[t]
      /\ end[t] <= TOTALPAGES /\ SYSPAGES <= home[t] /\ b <= TOTALPAGES
      /\ LeadsTo(mem, home[t], top[t])
  BY <1>2, LiveIs
<1>4. Home(t) = home[t]
  <2>1. Owns(t) \in SUBSET Nat /\ home[t] \in Owns(t)
    BY <1>3, Pages, MemoryEnds DEF Owns
  <2>2. \A y \in Owns(t) : home[t] <= y
    BY OwnedIs DEF Owns
  <2> QED
    BY <2>1, <2>2, LeastOne DEF Home
<1> DEFINE S == {n \in home[t] .. TOTALPAGES : n = TOTALPAGES \/ mem.owner[n] # t}
<1>5. LeastOf(S) = end[t]
  <2>1. S \in SUBSET Nat
    BY <1>3, Sized
  <2>2. end[t] \in S
    <3>1. CASE end[t] = TOTALPAGES
      BY <1>3, <3>1, Sized
    <3>2. CASE end[t] < TOTALPAGES
      <4>1. end[t] \in UserPage
        BY <1>3, <3>2, Sized DEF UserPage
      <4>2. mem.owner[end[t]] # t
        <5> SUFFICES ASSUME mem.owner[end[t]] = t PROVE FALSE
          OBVIOUS
        <5>1. end[t] < end[t]
          BY <4>1, OwnedIs
        <5> QED
          BY <1>3, <5>1
      <4> QED
        BY <1>3, <3>2, <4>2, Sized
    <3> QED
      BY <1>3, <3>1, <3>2, Sized
  <2>3. ASSUME NEW n \in S PROVE end[t] <= n
    <3>1. n \in Nat /\ home[t] <= n /\ n <= TOTALPAGES
      BY <1>3, Sized
    <3>2. CASE n < end[t]
      <4>1. n \in SYSPAGES .. b - 1 /\ n < TOTALPAGES
        BY <1>2, <1>3, <3>1, <3>2, Sized
      <4>2. mem.owner[n] = t
        BY <3>1, <3>2, <4>1 DEF Below, Runs
      <4> QED
        BY <3>1, <4>1, <4>2, Sized
    <3> QED
      BY <1>3, <3>1, <3>2
  <2> HIDE DEF S
  <2> QED
    BY <2>1, <2>2, <2>3, LeastOne
<1>6. RunEnd(t) = Addr(end[t])
  BY <1>4, <1>5 DEF RunEnd
<1>7. /\ mem.next[top[t]] = NoNext /\ Climbs(mem)
      /\ mem.remaining[home[t]] <= Addr(end[t]) - (top[t] + DATA)
  BY <1>2 DEF Below, Chains
<1>8. ChainTop(t) = top[t] + DATA
  BY <1>2, <1>3, <1>4, <1>7, ChainEnds DEF ChainTop
<1> QED
  BY <1>4, <1>6, <1>7, <1>8

LEMMA BlocksInPages ==
  ASSUME TypeInv, NEW b, NEW home, NEW end, NEW top, Below(mem, b, home, end, top),
         \A c \in blocks : InSystem(c) \/ InRun(c, b, home, end, top)
  PROVE  InOwnPages
<1> SUFFICES ASSUME NEW c \in blocks, NEW p \in UserPage, Touches(c, p),
                    ~(c.from < Addr(SYSPAGES))
             PROVE  mem.owner[p] = c.thread
  BY DEF InOwnPages
<1>1. /\ p \in Nat /\ p + 1 \in Nat /\ SYSPAGES <= p
      /\ c.from \in Nat /\ c.to \in Nat /\ IsMemory(mem)
  BY MemoryEnds, Sized DEF UserPage, TypeInv, TypeOK
<1>2. Addr(p) < c.to /\ c.from < Addr(p + 1) /\ Addr(p) \in Nat /\ Addr(p + 1) \in Nat
  BY <1>1, AddrIsNat DEF Touches
<1>3. CASE InSystem(c)
  <2>1. PICK q \in 0 .. SYSPAGES - 1 : c.from < Addr(q + 1)
    BY <1>3 DEF InSystem
  <2>2. q + 1 \in Nat /\ q + 1 <= SYSPAGES
    BY Sized
  <2>3. Addr(q + 1) <= Addr(SYSPAGES) /\ Addr(q + 1) \in Nat /\ Addr(SYSPAGES) \in Nat
    BY <2>2, AddrOrder, Sized
  <2> QED
    BY <1>1, <2>1, <2>3
<1>4. CASE InRun(c, b, home, end, top)
  <2> DEFINE t == c.thread
  <2>1. /\ t \in Thread /\ Live(b, home, end, t)
        /\ Addr(home[t]) <= c.from /\ c.to <= top[t]
    BY <1>4 DEF InRun
  <2> HIDE DEF t
  <2>2. /\ b \in Nat /\ home[t] \in Nat /\ end[t] \in Nat /\ top[t] \in Nat
        /\ top[t] < Addr(b) /\ top[t] < Addr(end[t])
    BY <1>1, <2>1, LiveIs
  <2>3. /\ Addr(b) \in Nat /\ Addr(end[t]) \in Nat /\ Addr(home[t]) \in Nat
    BY <2>2, AddrIsNat
  <2>4. Addr(p) < Addr(b) /\ Addr(p) < Addr(end[t]) /\ Addr(home[t]) < Addr(p + 1)
    BY <1>1, <1>2, <2>1, <2>2, <2>3
  <2>5. p < b /\ p < end[t]
    BY <1>1, <2>2, <2>4, AddrOrder
  <2>6. home[t] < p + 1
    BY <1>1, <2>2, <2>4, AddrOrder
  <2>7. p \in SYSPAGES .. b - 1 /\ home[t] <= p
    BY <1>1, <2>2, <2>5, <2>6, Sized
  <2> QED
    BY <2>1, <2>5, <2>7 DEF Below, Runs, t
<1> QED
  BY <1>3, <1>4

\* A step leaves a page that has an owner to it.
LEMMA OwnersStep ==
  ASSUME TypeInv, PagesInv, Sound, [Next]_vars, NEW p \in UserPage,
         mem.owner[p] # Nobody
  PROVE  mem'.owner[p] = mem.owner[p]
<1>1. SystemFresh /\ CallsInv /\ Calls /\ IsMemory(mem)
  BY SoundIsGood DEF PagesInv, CallsInv, TypeInv
<1>2. PICK b, home, end, top : Good(b, home, end, top)
  BY SoundIsGood
<1>3. Below(mem, b, home, end, top) /\ Fresh(mem, b, home, end)
  BY <1>2 DEF Good
<1>4. p \in Page /\ p < b
  <2>1. mem.owner[p] \in Thread
    BY Pages DEF TypeInv, TypeOK
  <2> QED
    BY <1>3, <2>1, OwnedIs, Pages
<1>5. CASE UNCHANGED mem
  BY <1>5
<1>6. ASSUME NEW t \in Thread, TakePage(t) PROVE mem'.owner[p] = mem.owner[p]
  <2>1. Candidates # {} /\ mem' = ClaimedMemory
    BY <1>1, <1>6, FindIs
  <2>2. CASE p = FirstPage
    BY <1>3, <1>4, <2>1, <2>2, FirstIsHome
  <2>3. CASE p # FirstPage
    BY <1>4, <2>1, <2>3, ClaimedIs
  <2> QED
    BY <2>2, <2>3
<1>7. ASSUME NEW t \in Thread, MemPush(t) PROVE mem'.owner[p] = mem.owner[p]
  <2>1. CASE mem' = mem
    BY <2>1
  <2>2. CASE mem' = memPush(mem, t, ptr[t], size[t], page[t])
    <3>0. PICK h, s, i : h = ptr[t] /\ s = size[t] /\ i = page[t]
      OBVIOUS
    <3>1. s \in Nat /\ i \in UserPage /\ mem' = memPush(mem, t, h, s, i)
      BY <1>1, <1>7, <2>2, <3>0, PushStepIs
    <3> DEFINE x == mem'
    <3>2. x = memPush(mem, t, h, s, i)
      BY <3>1
    <3> HIDE DEF x
    <3>3. x.owner[p] = mem.owner[p]
      <4>1. /\ p \in Page /\ p < b /\ IsMemory(mem) /\ s \in Nat /\ i \in UserPage
            /\ Below(mem, b, home, end, top)
        BY <1>1, <1>3, <1>4, <3>1
      <4> QED
        BY ONLY <3>2, <4>1, OwnersKept
    <3> QED
      BY <3>3 DEF x
  <2> QED
    BY <1>1, <1>7, <2>1, <2>2, PushStepIs
<1>8. ASSUME initQueue \/ CreateThread PROVE mem'.owner[p] = mem.owner[p]
  <2>1. PICK id \in Thread \cup {Nobody}, s \in Nat :
          SystemRequest(id, s) /\ 0 < s /\ s + HEADER < PAGE_SIZE
    BY <1>8, RequestIs
  <2>2. PICK q, i, m : q = SystemPage /\ i = SystemAccount
                       /\ m = [mem EXCEPT !.owner[SystemPage] = id]
    OBVIOUS
  <2>3. \/ mem' = mem
        \/ ~Faults(m, Main, Addr(q), s, i) /\ mem' = memPush(m, Main, Addr(q), s, i)
    BY <1>1, <2>1, <2>2, AskIs
  <2>4. /\ q \in 0 .. SYSPAGES - 1 /\ IsMemory(m) /\ m.owner = [mem.owner EXCEPT ![q] = id]
        /\ m.remaining = mem.remaining /\ m.free = mem.free /\ m.next = mem.next
    BY <2>2, SystemPageIs, SystemMemory
  <2>5. m.owner[p] = mem.owner[p]
    <3>1. p # q
      BY <2>4, Sized DEF UserPage
    <3>2. mem.owner \in [Page -> Thread \cup {Nobody}]
      BY DEF TypeInv, TypeOK
    <3> QED
      BY <1>4, <2>4, <3>1, <3>2
  <2> DEFINE x == mem'
  <2>6. x = mem \/ (~Faults(m, Main, Addr(q), s, i) /\ x = memPush(m, Main, Addr(q), s, i))
    BY <2>3
  <2> HIDE DEF x
  <2>7. CASE x = mem
    BY <2>7 DEF x
  <2>8. CASE FreeSystemPages = {} /\ x # mem
    <3>1. i = SYSPAGES /\ i \in UserPage
      BY <2>2, <2>8, Pages DEF SystemAccount
    <3>2. Below(m, b, home, end, top)
      BY <1>1, <1>3, <2>4, OwnedAside
    <3>3. PICK h : x = memPush(m, Main, h, s, i)
      BY <2>6, <2>8
    <3>4. x.owner[p] = m.owner[p]
      <4>1. p \in Page /\ p < b /\ IsMemory(m) /\ i \in UserPage
        BY <1>4, <2>4, <3>1
      <4> QED
        BY ONLY <3>2, <3>3, <4>1, s \in Nat, OwnersKept
    <3> QED
      BY <2>5, <3>4 DEF x
  <2>9. CASE FreeSystemPages # {} /\ x # mem
    <3>1. i = q /\ Addr(q) \in mem.free
      BY <2>2, <2>9, SystemPageIs
    <3>2. m.remaining[q] = PAGE_SIZE - HEADER
      BY <1>1, <2>4, <3>1 DEF SystemFresh
    <3>3. PICK curr : curr = Addr(q) + DATA + s
      OBVIOUS
    <3>4. /\ ~Faults(m, Main, Addr(q), s, q) /\ x = memPush(m, Main, Addr(q), s, q)
      BY <2>6, <2>9, <3>1
    <3>5. \E c, a : /\ a \in Int /\ IsMemory(c) /\ Charged(c, m, Main, q, {}, a)
                    /\ Extended(x, c, Addr(q), curr)
      BY <2>1, <2>4, <3>2, <3>3, <3>4, SystemPush
    <3>6. x.owner = [r \in Page |-> m.owner[r]]
      BY <3>5 DEF Charged, Extended
    <3> QED
      BY <1>4, <2>5, <3>6 DEF x
  <2> QED
    BY <2>7, <2>8, <2>9
<1> QED
  BY <1>5, <1>6, <1>7, <1>8 DEF Next, TakePage, Malloc, FindPage, NoPageLeft, Switch, vars

-----------------------------------------------------------------------------
(* The theorems. *)

\* While no account is overdrawn and no chunk header has fallen on that of a
\* page, remainingSpace never promises more than there is between the end of
\* a thread's chain and the end of its pages, whatever the sizes of the
\* pages, of the header and of the requests (171, 334-369).
THEOREM AccountsAreCovered ==
  ASSUME ~AlarmAnywhere
  PROVE  Spec => []AccountsCover
<1>1. TypeInv /\ PagesInv => AccountsCover
  BY SoundIsGood, Covers DEF AccountsCover, Good
<1> QED
  BY <1>1, PagesInvariance, PTL

\* As long as every stack has found a page of its own besides, no byte is
\* handed out twice, and what a thread is given lies in its own pages
\* (94-117, 334-369).
THEOREM BlocksAreApart ==
  ASSUME ~AlarmAnywhere
  PROVE  Spec => []BlocksApart
<1>1. TypeInv /\ PagesInv => BlocksApart
  BY SoundIsGood, BlocksInPages DEF BlocksApart, Good, Blocks
<1> QED
  BY <1>1, PagesInvariance, PTL

\* A page of the threads that has an owner is given to nobody else (98-110,
\* 345-368).
THEOREM OwnersAreKept ==
  ASSUME ~AlarmAnywhere
  PROVE  Spec => OwnersStay
<1>1. TypeInv /\ PagesInv /\ [Next]_vars =>
        [Sound => \A p \in UserPage :
           mem.owner[p] # Nobody => mem'.owner[p] = mem.owner[p]]_mem
  BY OwnersStep
<1> QED
  BY <1>1, PagesInvariance, PTL DEF Spec, OwnersStay
=============================================================================
