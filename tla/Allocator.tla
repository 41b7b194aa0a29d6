------------------------------ MODULE Allocator ------------------------------
(***************************************************************************)
(* The page allocator of my_pthread.c: myallocate and memPush.             *)
(*                                                                         *)
(* Memory is TOTALPAGES pages; the first SYSPAGES of them hold stacks and  *)
(* the run queues (SYSTEMREQ), the others the threads' data (THREADREQ).   *)
(* Every page begins with a mem_data header.  A thread's first page holds  *)
(* a chain of chunks: a header, the caller's bytes right behind it, the    *)
(* next header.  The chain may run on into the pages that follow, which    *)
(* memPush claims when the account of the first page (remainingSpace) does *)
(* not cover a request.                                                    *)
(*                                                                         *)
(* A header is known by its address, so that a chunk header that falls on  *)
(* the first byte of a page IS the header of that page.  The bytes of a    *)
(* header are not modelled: when one is written across another the model   *)
(* ends (process = "corrupt").  What a program writes in its blocks, and   *)
(* the field size, which is only printed, are left out; so mydeallocate    *)
(* is: it subtracts sizeof(mem_data) where the block begins at dataPtr,    *)
(* and what it sets is the field size.                                     *)
(*                                                                         *)
(* An alarm inside myallocate (AlarmAnywhere) falls between the steps of a *)
(* request: after the caller is noted (262), between the test of a page    *)
(* and its use or its claim (345-354), and before memPush.                 *)
(***************************************************************************)
EXTENDS Integers, FiniteSets

CONSTANTS TOTALPAGES, SYSPAGES, PAGE_SIZE,
          HEADER,         \* sizeof(mem_data)
          DATA,           \* offsetof(mem_data, dataPtr)
          StackSize,      \* the 4000 bytes of a stack
          QueuesSize,     \* the bytes of the four run queues
          Sizes,          \* the sizes the program asks for
          MaxThreads,     \* bound: how many threads are made, main() included
          AlarmAnywhere   \* may SIGALRM arrive between the steps of a request?

ASSUME PagesAssumption ==
  /\ TOTALPAGES \in Nat /\ SYSPAGES \in Nat
  /\ 0 < SYSPAGES /\ SYSPAGES < TOTALPAGES
ASSUME HeaderAssumption ==
  /\ PAGE_SIZE \in Nat /\ HEADER \in Nat /\ DATA \in Nat
  /\ 0 < DATA /\ DATA <= HEADER /\ HEADER < PAGE_SIZE
ASSUME SizesAssumption ==
  /\ Sizes \subseteq Nat \ {0}
  /\ {StackSize, QueuesSize} \subseteq 1 .. PAGE_SIZE - HEADER - 1
ASSUME ThreadsAssumption == MaxThreads \in Nat \ {0} /\ AlarmAnywhere \in BOOLEAN

Page     == 0 .. TOTALPAGES - 1
UserPage == SYSPAGES .. TOTALPAGES - 1
MemSize  == TOTALPAGES * PAGE_SIZE
Address  == 0 .. MemSize - 1
Addr(p)  == p * PAGE_SIZE      \* memoryList[p]

Nobody == -1   \* the id of a page that has no owner, and of the queues
NoNext == -1   \* the null pointer in a header

Thread == 0 .. MaxThreads - 1
Main   == 0

LeastOf(S) == CHOOSE x \in S : \A y \in S : x <= y
CeilDiv(a, b) == (a + b - 1) \div b

-----------------------------------------------------------------------------
(* The memory: who owns a page, what its account says, which headers are   *)
(* marked free, and where next of each header points.                      *)

initMemory == [owner     |-> [p \in Page |-> Nobody],
               remaining |-> [p \in Page |-> PAGE_SIZE - HEADER],
               free      |-> {Addr(p) : p \in Page},
               next      |-> [h \in {Addr(p) : p \in Page} |-> NoNext]]

IsFree(m, p) == Addr(p) \in m.free

\* "while(ptr->memFree == 0 && ptr->next != NULL)", from the header h on.
IsLast(m, h) == h \in m.free \/ m.next[h] = NoNext
Follow(m, h) == IF IsLast(m, h) THEN h ELSE m.next[h]

Chain(m, h) ==
  LET at[k \in 0 .. Cardinality(DOMAIN m.next)] ==
        IF k = 0 THEN h ELSE Follow(m, at[k - 1])
  IN  at

LastChunk(m, h) == Chain(m, h)[Cardinality(DOMAIN m.next)]

-----------------------------------------------------------------------------
(* memPush(prev, size, i): size bytes are cut off behind the header prev,  *)
(* on the account of page i, for the thread id.                            *)

\* The pages wanted beyond the account; a negative account, compared as a
\* size_t, is never exceeded.
PagesRequested(m, size, i) ==
  IF 0 <= m.remaining[i] /\ m.remaining[i] <= size
  THEN CeilDiv(size - m.remaining[i], PAGE_SIZE) ELSE 0

\* The loop over the pages from i on claims those that are free ...
Claims(m, i, n) == {p \in i .. n - 1 : IsFree(m, p)}

\* ... as long as they belong to the thread or to nobody.
\* Mutant: whose the pages are is not asked.
Foreign_NotAsked(m, id, p) == FALSE
Foreign(m, id, p) == m.owner[p] \notin {id, Nobody}

\* It gives up (BadFlag) at a page of nobody's that is not free.
Unclaimable(m, p) == m.owner[p] = Nobody /\ ~IsFree(m, p)

\* The page before which the loop stops, i if it does not run.
StopsAt(m, id, size, i) ==
  LeastOf({n \in i .. TOTALPAGES :
             \/ Cardinality(Claims(m, i, n)) = PagesRequested(m, size, i)
             \/ n = TOTALPAGES
             \/ Foreign(m, id, n)
             \/ Unclaimable(m, n)})

Claimed(m, id, size, i) == Claims(m, i, StopsAt(m, id, size, i))

Unsatisfied(m, id, size, i) ==
  Cardinality(Claimed(m, id, size, i)) < PagesRequested(m, size, i)

\* The loop read memoryList[TOTALPAGES].
RunsOver(m, id, size, i) ==
  Unsatisfied(m, id, size, i) /\ StopsAt(m, id, size, i) = TOTALPAGES

BadFlag(m, id, size, i) ==
  /\ Unsatisfied(m, id, size, i)
  /\ ~RunsOver(m, id, size, i)
  /\ ~Foreign(m, id, StopsAt(m, id, size, i))

Available(m, id, size, i) ==
  {p \in UserPage : IsFree(m, p)} \ Claimed(m, id, size, i)

\* curr, the header behind the block; the next available page if BadFlag.
NewHeader(m, id, prev, size, i) ==
  IF BadFlag(m, id, size, i)
  THEN Addr(LeastOf(Available(m, id, size, i)))
  ELSE prev + DATA + size

\* The account after n pages were claimed: sizeof is taken off twice, also
\* when no page was claimed.  Mutant: the header is not paid for.
AccountAfter_HeaderFree(account, size, n) == account - size + n * PAGE_SIZE
AccountAfter(account, size, n) ==
  (account - size - HEADER) + (n * PAGE_SIZE - HEADER)

\* The claimed pages and prev are taken, curr is free.  Mutant: the claimed
\* pages stay marked free.
FreeAfter_KeepsPages(m, taken, prev, curr) == (m.free \cup {curr}) \ {prev}
FreeAfter(m, taken, prev, curr) ==
  ((m.free \ {Addr(p) : p \in taken}) \cup {curr}) \ {prev}

\* curr is the new end of the chain.  Mutant: its next is not set.
NextAfter_Dangling(m, prev, curr) == [m.next EXCEPT ![prev] = curr]
NextAfter(m, prev, curr) ==
  [h \in DOMAIN m.next \cup {curr} |->
     CASE h = prev -> curr
       [] h # prev /\ h = curr -> NoNext
       [] OTHER -> m.next[h]]

memPush(m, id, prev, size, i) ==
  LET taken == Claimed(m, id, size, i)
      curr  == NewHeader(m, id, prev, size, i)
  IN  [owner     |-> [p \in Page |-> IF p \in taken THEN id ELSE m.owner[p]],
       remaining |-> [m.remaining EXCEPT ![i] =
                        AccountAfter(@, size, Cardinality(taken))],
       free      |-> FreeAfter(m, taken, prev, curr),
       next      |-> NextAfter(m, prev, curr)]

Overlaps(a, b) == a # b /\ a < b + DATA /\ b < a + DATA

\* The process touched memory that is not its own ...
Faults(m, id, prev, size, i) ==
  \/ RunsOver(m, id, size, i)
  \/ BadFlag(m, id, size, i) /\ Available(m, id, size, i) = {}
  \/ NewHeader(m, id, prev, size, i) + DATA > MemSize

\* ... or wrote a header across another.
Tears(m, id, prev, size, i) ==
  \E h \in DOMAIN m.next : Overlaps(h, NewHeader(m, id, prev, size, i))

-----------------------------------------------------------------------------
VARIABLES
  mem,         \* the memory
  blocks,      \* the blocks handed out: [thread, from, to)
  nodeID,      \* the next thread's id
  runningID,   \* the global myallocate keeps the caller's id in
  currThread,  \* the id of the thread that runs
  pc,          \* where in myallocate each thread is
  size, page, ptr,  \* the locals of myallocate
  process      \* "up", "crashed" or "corrupt"

vars == << mem, blocks, nodeID, runningID, currThread, pc, size, page, ptr,
           process >>

\* The types; and every chunk that next leads to has a header.
TypeOK ==
  /\ DOMAIN mem.next \subseteq Address
  /\ mem.owner \in [Page -> Thread \cup {Nobody}]
  /\ mem.remaining \in [Page -> Int]
  /\ mem.free \subseteq DOMAIN mem.next
  /\ \A h \in DOMAIN mem.next : mem.next[h] \in DOMAIN mem.next \cup {NoNext}
  /\ blocks \subseteq [thread : Thread \cup {Nobody}, from : 0 .. MemSize, to : Nat]
  /\ nodeID \in 0 .. MaxThreads
  /\ {runningID, currThread} \subseteq Thread
  /\ pc \in [Thread -> {"user", "find", "use", "claim", "push"}]
  /\ size \in [Thread -> Sizes \cup {0}]
  /\ page \in [Thread -> UserPage \cup {0}]
  /\ ptr \in [Thread -> Address]
  /\ process \in {"up", "crashed", "corrupt"}

\* The first call of myallocate has laid out the pages.
Init ==
  /\ mem = initMemory
  /\ blocks = {}
  /\ nodeID = 0
  /\ runningID = Main
  /\ currThread = Main
  /\ pc = [t \in Thread |-> "user"]
  /\ size = [t \in Thread |-> 0]
  /\ page = [t \in Thread |-> 0]
  /\ ptr = [t \in Thread |-> 0]
  /\ process = "up"

At(t, p) == currThread = t /\ pc[t] = p /\ process = "up"

\* The block behind the header h, and what handing it out does.
Block(t, h, s) == [thread |-> t, from |-> h + DATA, to |-> h + DATA + s]

Push(t, h, s, i, m, id) ==
  IF Faults(m, id, h, s, i)
  THEN process' = "crashed" /\ UNCHANGED << mem, blocks >>
  ELSE IF Tears(m, id, h, s, i)
  THEN process' = "corrupt" /\ UNCHANGED << mem, blocks >>
  ELSE /\ mem' = memPush(m, id, h, s, i)
       /\ blocks' = blocks \cup {Block(t, h, s)}
       /\ UNCHANGED process

-----------------------------------------------------------------------------
(* myallocate(size, ..., THREADREQ) *)

\* runningID = currThread->id
Malloc(t) ==
  /\ At(t, "user")
  /\ \E s \in Sizes : size' = [size EXCEPT ![t] = s]
  /\ runningID' = t
  /\ pc' = [pc EXCEPT ![t] = "find"]
  /\ UNCHANGED << mem, blocks, nodeID, currThread, page, ptr, process >>

\* The first page that is the thread's own or free.
Candidates == {p \in UserPage : mem.owner[p] = runningID \/ IsFree(mem, p)}
FirstPage  == LeastOf(Candidates)

\* What the loop finds in it: a page of its own, or one to be claimed.
FindPage(t) ==
  /\ At(t, "find")
  /\ Candidates # {}
  /\ page' = [page EXCEPT ![t] = FirstPage]
  /\ pc' = [pc EXCEPT ![t] = IF mem.owner[FirstPage] = runningID
                             THEN "use" ELSE "claim"]
  /\ UNCHANGED << mem, blocks, nodeID, runningID, currThread, size, ptr, process >>

\* The chain of chunks is followed to its end.
TakeChunk(t, m) ==
  /\ mem' = m
  /\ ptr' = [ptr EXCEPT ![t] = LastChunk(m, Addr(page[t]))]
  /\ pc' = [pc EXCEPT ![t] = "push"]
  /\ UNCHANGED << blocks, nodeID, runningID, currThread, size, page, process >>

UsePage(t) == At(t, "use") /\ TakeChunk(t, mem)

\* The test for a free page is not repeated.
ClaimPage(t) ==
  /\ At(t, "claim")
  /\ TakeChunk(t, [mem EXCEPT !.owner[page[t]] = runningID,
                              !.free = @ \ {Addr(page[t])}])

\* No page is left: memoryList[TOTALPAGES] is followed.
NoPageLeft(t) ==
  /\ At(t, "find")
  /\ Candidates = {}
  /\ process' = "crashed"
  /\ UNCHANGED << mem, blocks, nodeID, runningID, currThread, pc, size, page, ptr >>

MemPush(t) ==
  /\ At(t, "push")
  /\ Push(t, ptr[t], size[t], page[t], mem, runningID)
  /\ pc' = [pc EXCEPT ![t] = "user"]
  /\ size' = [size EXCEPT ![t] = 0]
  /\ page' = [page EXCEPT ![t] = 0]
  /\ ptr' = [ptr EXCEPT ![t] = 0]
  /\ UNCHANGED << nodeID, runningID, currThread >>

-----------------------------------------------------------------------------
(* myallocate(size, ..., SYSTEMREQ), by main() in my_pthread_create *)

FreeSystemPages == {p \in 0 .. SYSPAGES - 1 : IsFree(mem, p)}

\* The first free system page.  When there is none, it is page 0 again, and
\* the loop's i, which says whose account is charged, is SYSPAGES.
SystemPage    == IF FreeSystemPages = {} THEN 0 ELSE LeastOf(FreeSystemPages)
SystemAccount == IF FreeSystemPages = {} THEN SYSPAGES ELSE SystemPage

\* id is nodeID - 1 once my_pthread_create has counted the thread.
SystemRequest(id, s) ==
  /\ At(Main, "user")
  /\ runningID' = Main
  /\ Push(id, Addr(SystemPage), s, SystemAccount,
          [mem EXCEPT !.owner[SystemPage] = id], Main)
  /\ UNCHANGED << currThread, pc, size, page, ptr >>

initQueue ==
  /\ \A b \in blocks : b.thread # Nobody
  /\ SystemRequest(Nobody, QueuesSize)
  /\ UNCHANGED nodeID

\* The stack of the next thread, Main's first; Main's node was taken from
\* its own pages before.
CreateThread ==
  /\ nodeID < MaxThreads
  /\ \E b \in blocks : b.thread = Nobody
  /\ \E b \in blocks : b.thread = Main
  /\ nodeID' = nodeID + 1
  /\ SystemRequest(nodeID, StackSize)

-----------------------------------------------------------------------------
\* scheduler() runs another thread, whose call of swapcontext returns and is
\* followed by "runningID = currThread->id".  (A thread's first turn begins in
\* exitChecker instead; nothing reads runningID before its first request sets
\* it.)
Switch ==
  /\ process = "up"
  /\ AlarmAnywhere \/ pc[currThread] = "user"
  /\ \E t \in 0 .. nodeID - 1 :
       t # currThread /\ currThread' = t /\ runningID' = t
  /\ UNCHANGED << mem, blocks, nodeID, pc, size, page, ptr, process >>

Next ==
  \/ \E t \in Thread : \/ Malloc(t)
                       \/ FindPage(t) \/ NoPageLeft(t)
                       \/ UsePage(t) \/ ClaimPage(t)
                       \/ MemPush(t)
  \/ initQueue \/ CreateThread
  \/ Switch

Spec == Init /\ [][Next]_vars

-----------------------------------------------------------------------------
(* Properties *)

Owns(t) == {p \in UserPage : mem.owner[p] = t}
Home(t) == LeastOf(Owns(t))

\* Whoever runs inside a request finds its own id in runningID, however often
\* other threads have made requests meanwhile (262, 765, 771).
CallerKnown ==
  \A t \in Thread : currThread = t /\ pc[t] # "user" => runningID = t

\* The end of the pages that follow the home page of t and are its own.
RunEnd(t) == Addr(LeastOf({n \in Home(t) .. TOTALPAGES :
                             n = TOTALPAGES \/ mem.owner[n] # t}))

\* Where the next block of t will begin.
ChainTop(t) == LastChunk(mem, Addr(Home(t))) + DATA

\* No chunk header has fallen on the header of a page.
PageHeadersApart ==
  \A h \in DOMAIN mem.next : mem.next[h] \notin {Addr(p) : p \in Page}

\* No account is overdrawn.
NoDeficit == \A p \in UserPage : mem.remaining[p] >= 0

\* Neither has happened yet; what holds then is not promised afterwards.
Sound == PageHeadersApart /\ NoDeficit

\* Every stack has found a page.
SystemPagesLeft == nodeID < SYSPAGES

Touches(b, p) == Addr(p) < b.to /\ b.from < Addr(p + 1)

\* While no account is overdrawn, remainingSpace (171) never promises more
\* than there is from the end of a thread's chain to the end of its pages.
AccountsCover ==
  Sound => \A t \in Thread :
      Owns(t) # {} => mem.remaining[Home(t)] <= RunEnd(t) - ChainTop(t)

\* The bytes given to a thread are in pages that belong to it, and so in no
\* other thread's (334-369, 94-117).
InOwnPages ==
  \A b \in blocks, p \in UserPage :
    Touches(b, p) => b.from < Addr(SYSPAGES) \/ mem.owner[p] = b.thread

\* No byte is handed out twice: where the pages behind a thread's own are not
\* to be had, the request is not met in sequence (97, 111).
NoOverlap == \A a, b \in blocks : a # b => a.to <= b.from \/ b.to <= a.from

\* Both hold while no account is overdrawn and every stack has found a page.
BlocksApart ==
  Sound /\ SystemPagesLeft => NoOverlap /\ InOwnPages

\* A page of the threads that has an owner is given to nobody else (345-368,
\* 98-110), as long as no chunk header has fallen on it and freed it (166).
OwnersStay ==
  [][Sound => \A p \in UserPage :
       mem.owner[p] # Nobody => mem'.owner[p] = mem.owner[p]]_mem

=============================================================================
