----------------------------- MODULE ProcQueues -----------------------------
(***************************************************************************)
(* queues/procq.c and queues/asl.c: the links.                             *)
(*                                                                         *)
(* A queue is a ring that its owner enters at the tail.  A process has     *)
(* SEMMAX links, one for each queue it stands in, so a place in a ring is  *)
(* a process and the number of one of its links; a link holds the next     *)
(* place.  The free list uses link 0.  The active semaphore list is doubly *)
(* linked; a descriptor holds the address of its semaphore and the tail of *)
(* the queue of the processes that wait for it.                            *)
(*                                                                         *)
(* A definition whose name ends in an underscore and a word, and which     *)
(* comes before the one it is named after, is a faulty variant of it.      *)
(***************************************************************************)
EXTENDS Integers, SequencesExt

CONSTANTS MAXPROC,      \* entries of proc_table
          SEMD,         \* entries of semd_table, MAXPROC in the code
          SEMMAX,       \* links of a process
          Sem           \* addresses of semaphores

ENULL == -1
Proc == 1..MAXPROC
Semd == 1..SEMD
Slot == 0..(SEMMAX - 1)
None == [next |-> ENULL, index |-> ENULL]

ASSUME TableAssumption == /\ MAXPROC \in Nat \ {0}
                          /\ SEMD \in Nat /\ SEMD >= 2
                          /\ SEMMAX \in Nat \ {0}
                          /\ ENULL \notin Sem /\ "running_queue" \notin Sem

VARIABLES p_link,          \* p_link[p][i]: a proc_link, the place after <<p, i>>
          qcount,          \* the number of queues p stands in
          semvec,          \* semvec[p][i]: a semaphore p waits for, or ENULL
          free_head,       \* the first free process
          running_queue,   \* the tail of the running queue
          semd,            \* the semaphore descriptors
          cur_sem,         \* the first descriptor in use
          free_head_s,     \* the first free descriptor
          ret,             \* what the last call returned
          view             \* history: the queues these links represent

Returned(p) == [proc |-> p, full |-> FALSE, raised |-> {}]

procs == <<p_link, qcount, free_head>>
asl == <<semvec, semd, cur_sem, free_head_s>>
vars == <<p_link, qcount, semvec, free_head, running_queue, semd, cur_sem,
          free_head_s, ret, view>>

----------------------------------------------------------------------------
(***************************************************************************)
(* Walks along links.  As many steps as there are nodes reach the end.     *)
(***************************************************************************)

\* The places of the ring with tail tp: the tail's link leads to the head.
Ring(L, tp) ==
    LET at[n \in 0..MAXPROC] ==
          IF n = 0 THEN tp
          ELSE LET prev == at[n-1] IN IF prev = None THEN None ELSE L[prev.next][prev.index]
    IN  at

\* The nodes from first on, along the function next, of at most size nodes.
Chain(first, next, size) ==
    LET upto[n \in 0..size] ==
          IF n = 0 THEN <<>>
          ELSE LET seen == upto[n-1]
                   node == IF seen = <<>> THEN first ELSE next[Last(seen)]
               IN  IF node = ENULL THEN seen ELSE Append(seen, node)
    IN  upto[size]

FreeList(head, L) == Chain(head, [p \in Proc |-> L[p][0].next], MAXPROC)

List(head, D) == Chain(head, [x \in Semd |-> D[x].s_next], SEMD)

\* The descriptor of s on the list that starts at head.
Find(head, D, s) ==
    LET found == {x \in ToSet(List(head, D)) : D[x].s_semAdd = s}
    IN  IF found = {} THEN ENULL ELSE CHOOSE x \in found : TRUE

----------------------------------------------------------------------------
(***************************************************************************)
(* procq.c, on the links L and the tail tp of a queue.  The result holds   *)
(* both after the call, and the process returned.                          *)
(***************************************************************************)
headQueue(L, tp) == IF tp.next = ENULL THEN ENULL ELSE L[tp.next][tp.index].next

\* The first link that is not in use.  With none left the code panics.
FreeSlot(L, p) == CHOOSE i \in Slot : /\ L[p][i].index = ENULL
                                      /\ \A j \in 0..(i-1) : L[p][j].index # ENULL

insertProc(L, tp, p) ==
    LET i == FreeSlot(L, p)
        place == [next |-> p, index |-> i]
    IN  [L  |-> IF tp.next = ENULL THEN [L EXCEPT ![p][i] = place]
                ELSE [L EXCEPT ![p][i] = L[tp.next][tp.index],
                               ![tp.next][tp.index] = place],
         tp |-> place]

\* The only place of a queue is taken out.
removeOnly(L, tp) ==
    [L |-> [L EXCEPT ![tp.next][tp.index] = None], tp |-> None, rv |-> tp.next]

\* The place after prev is taken out of a queue of several.
bypass(L, prev, tp) ==
    LET gone == L[prev.next][prev.index]
    IN  [L  |-> [L EXCEPT ![prev.next][prev.index] = L[gone.next][gone.index],
                          ![gone.next][gone.index] = None],
         tp |-> tp, rv |-> gone.next]

removeProc(L, tp) ==
    IF tp.next = ENULL THEN [L |-> L, tp |-> tp, rv |-> ENULL]
    ELSE IF tp.next = headQueue(L, tp) THEN removeOnly(L, tp)
    ELSE bypass(L, tp, tp)

\* the tail pointer stays on the place that is taken out
outProc_KeepsTail(L, tp, p) ==
    LET at == Ring(L, tp)
        n == CHOOSE m \in 1..MAXPROC : /\ at[m].next \in {p, tp.next}
                                       /\ \A k \in 1..(m-1) : at[k].next \notin {p, tp.next}
    IN  IF tp.next = ENULL THEN [L |-> L, tp |-> tp, rv |-> ENULL]
        ELSE IF tp.next = headQueue(L, tp) /\ tp.next = p THEN removeOnly(L, tp)
        ELSE IF at[n].next # p THEN [L |-> L, tp |-> tp, rv |-> ENULL]
        ELSE bypass(L, at[n-1], tp)

\* From the head on, the first place of p is looked for; the tail ends the
\* search.
outProc(L, tp, p) ==
    LET at == Ring(L, tp)
        n == CHOOSE m \in 1..MAXPROC : /\ at[m].next \in {p, tp.next}
                                       /\ \A k \in 1..(m-1) : at[k].next \notin {p, tp.next}
    IN  IF tp.next = ENULL THEN [L |-> L, tp |-> tp, rv |-> ENULL]
        ELSE IF tp.next = headQueue(L, tp) /\ tp.next = p THEN removeOnly(L, tp)
        ELSE IF at[n].next # p THEN [L |-> L, tp |-> tp, rv |-> ENULL]
        ELSE bypass(L, at[n-1], IF p = tp.next THEN at[n-1] ELSE tp)

----------------------------------------------------------------------------
(***************************************************************************)
(* asl.c, on a record A of the links, the descriptors and the heads of the *)
(* two lists of descriptors.                                               *)
(***************************************************************************)
Asl == [L |-> p_link, semd |-> semd, cur |-> cur_sem, free |-> free_head_s]

\* setSem and setSem2, on one process's semvec
setSem(sv, s) ==
    IF \A i \in Slot : sv[i] # ENULL THEN sv
    ELSE [sv EXCEPT ![CHOOSE i \in Slot : /\ sv[i] = ENULL
                                          /\ \A j \in 0..(i-1) : sv[j] # ENULL] = s]

\* the entry is not cleared
setSem2_Keeps(sv, s) == sv

setSem2(sv, s) ==
    IF \A i \in Slot : sv[i] # s THEN sv
    ELSE [sv EXCEPT ![CHOOSE i \in Slot : /\ sv[i] = s
                                          /\ \A j \in 0..(i-1) : sv[j] # s] = ENULL]

\* the next free descriptor keeps its link back
takeSemd_KeepsPrev(A, s) ==
    LET x == A.free
        list == List(A.cur, A.semd)
        last == IF list = <<>> THEN ENULL ELSE Last(list)
    IN  [A EXCEPT !.free = A.semd[x].s_next,
                  !.cur = IF list = <<>> THEN x ELSE @,
                  !.semd = [y \in Semd |->
                     IF y = x THEN [A.semd[x] EXCEPT !.s_next = ENULL, !.s_semAdd = s]
                     ELSE IF y = last THEN [A.semd[y] EXCEPT !.s_next = x]
                     ELSE A.semd[y]]]

\* A free descriptor is appended to the list, for s.
takeSemd(A, s) ==
    LET x == A.free
        list == List(A.cur, A.semd)
        last == IF list = <<>> THEN ENULL ELSE Last(list)
    IN  [A EXCEPT !.free = A.semd[x].s_next,
                  !.cur = IF list = <<>> THEN x ELSE @,
                  !.semd = [y \in Semd |->
                     IF y = x THEN [A.semd[x] EXCEPT !.s_next = ENULL, !.s_semAdd = s,
                                                     !.s_prev = IF last = ENULL THEN @ ELSE last]
                     ELSE IF y = last THEN [A.semd[y] EXCEPT !.s_next = x]
                     ELSE IF y = A.semd[x].s_next THEN [A.semd[y] EXCEPT !.s_prev = ENULL]
                     ELSE A.semd[y]]]

\* Descriptor x leaves the list and goes to the end of the free list.
removeBlockHelper(A, x) ==
    LET prev == A.semd[x].s_prev
        next == A.semd[x].s_next
        frees == List(A.free, A.semd)
        last == IF frees = <<>> THEN ENULL ELSE Last(frees)
    IN  [A EXCEPT !.cur = IF prev = ENULL THEN next ELSE @,
                  !.free = IF frees = <<>> THEN x ELSE @,
                  !.semd = [y \in Semd |->
                     IF y = x THEN [A.semd[x] EXCEPT !.s_prev = last, !.s_next = ENULL,
                                                     !.s_semAdd = ENULL]
                     ELSE IF y = prev THEN [A.semd[y] EXCEPT !.s_next = next]
                     ELSE IF y = next THEN [A.semd[y] EXCEPT !.s_prev = prev]
                     ELSE IF y = last THEN [A.semd[y] EXCEPT !.s_next = x]
                     ELSE A.semd[y]]]

\* The queue of descriptor x has become r; an empty one gives x back.
shrink(A, x, r) ==
    LET B == [A EXCEPT !.L = r.L, !.semd[x].s_link = r.tp]
    IN  IF headQueue(B.L, B.semd[x].s_link) = ENULL THEN removeBlockHelper(B, x) ELSE B

\* One turn of the loop in outBlocked, for semaphore s in the semvec of p.  st
\* also counts the queues p has left and collects the semaphores it raised.
outOne(st, s, p) ==
    LET x == Find(st.A.cur, st.A.semd, s)
        r == outProc(st.A.L, st.A.semd[x].s_link, p)
    IN  IF s = ENULL THEN st
        ELSE IF x = ENULL THEN [st EXCEPT !.raised = @ \cup {s}]
        ELSE [A |-> shrink(st.A, x, r), rv |-> r.rv, raised |-> st.raised \cup {s},
              left |-> st.left + (IF r.rv = ENULL THEN 0 ELSE 1),
              sv |-> setSem2(st.sv, s)]

outAll(p) ==
    LET turn[i \in 0..SEMMAX] ==
          IF i = 0 THEN [A |-> Asl, rv |-> ENULL, raised |-> {}, left |-> 0,
                         sv |-> semvec[p]]
          ELSE outOne(turn[i-1], semvec[p][i-1], p)
    IN  turn[SEMMAX]

----------------------------------------------------------------------------
(***************************************************************************)
(* The routines as actions.  The guards are those of AbstractQueues: the   *)
(* conditions under which the nucleus calls them.                          *)
(*                                                                         *)
(* The variable view records the abstract state the links represent.       *)
(***************************************************************************)
Members(L, tp) ==
    LET at == Ring(L, tp)
        ends == {n \in 1..MAXPROC : at[n] = tp}
    IN  IF tp = None \/ ends = {} THEN <<>>
        ELSE LET len == CHOOSE n \in ends : \A m \in ends : n <= m
             IN  [n \in 1..len |-> at[n].next]

\* The abstract state that links L, free list fh, running queue tp and
\* descriptors D, in use from cs on, represent.
View(L, fh, tp, D, cs) ==
    [free |-> FreeList(fh, L),
     q |-> [k \in {"running_queue"} \cup Sem |->
              IF k \notin Sem THEN Members(L, tp)
              ELSE LET x == Find(cs, D, k)
                   IN  IF x = ENULL THEN <<>> ELSE Members(L, D[x].s_link)]]

Init == /\ p_link = [p \in Proc |-> [i \in Slot |->
                       IF i = 0 /\ p < MAXPROC THEN [next |-> p + 1, index |-> 0] ELSE None]]
        /\ qcount = [p \in Proc |-> 0]
        /\ semvec = [p \in Proc |-> [i \in Slot |-> ENULL]]
        /\ free_head = 1
        /\ running_queue = None
        /\ semd = [x \in Semd |-> [s_next |-> IF x < SEMD THEN x + 1 ELSE ENULL,
                                   s_prev |-> IF x > 1 THEN x - 1 ELSE ENULL,
                                   s_semAdd |-> ENULL, s_link |-> None]]
        /\ cur_sem = ENULL
        /\ free_head_s = 1
        /\ ret = Returned(ENULL)
        /\ view = View(p_link, free_head, running_queue, semd, cur_sem)

Allocated(p) == p \notin ToSet(view.free)

SetAsl(A) == /\ p_link' = A.L
             /\ semd' = A.semd
             /\ cur_sem' = A.cur
             /\ free_head_s' = A.free

allocProc ==
    /\ ret' = Returned(free_head)
    /\ IF free_head = ENULL THEN UNCHANGED <<free_head, p_link>>
       ELSE /\ free_head' = p_link[free_head][0].next
            /\ p_link' = [p_link EXCEPT ![free_head][0] = None]
    /\ UNCHANGED <<qcount, running_queue, asl>>

freeProc(p) ==
    /\ Allocated(p) /\ qcount[p] = 0
    /\ LET frees == FreeList(free_head, p_link)
           cleared == [p_link EXCEPT ![p] = [i \in Slot |-> None]]
       IN  IF frees = <<>> THEN free_head' = p /\ p_link' = cleared
           ELSE /\ p_link' = [cleared EXCEPT ![Last(frees)][0].next = p]
                /\ UNCHANGED free_head
    /\ qcount' = [qcount EXCEPT ![p] = 0]
    /\ semvec' = [semvec EXCEPT ![p] = [i \in Slot |-> ENULL]]
    /\ ret' = Returned(ENULL)
    /\ UNCHANGED <<running_queue, semd, cur_sem, free_head_s>>

InRing(tp, p) == \E n \in 1..MAXPROC : Ring(p_link, tp)[n].next = p

insertRunning(p) ==
    /\ Allocated(p) /\ qcount[p] < SEMMAX /\ ~ InRing(running_queue, p)
    /\ LET r == insertProc(p_link, running_queue, p)
       IN  p_link' = r.L /\ running_queue' = r.tp
    /\ qcount' = [qcount EXCEPT ![p] = @ + 1]
    /\ ret' = Returned(ENULL)
    /\ UNCHANGED <<free_head, asl>>

removeRunning ==
    LET r == removeProc(p_link, running_queue)
    IN  /\ p_link' = r.L /\ running_queue' = r.tp /\ ret' = Returned(r.rv)
        /\ qcount' = IF r.rv = ENULL THEN qcount ELSE [qcount EXCEPT ![r.rv] = @ - 1]
        /\ UNCHANGED <<free_head, asl>>

outRunning(p) ==
    LET r == outProc(p_link, running_queue, p)
    IN  /\ p_link' = r.L /\ running_queue' = r.tp /\ ret' = Returned(r.rv)
        /\ qcount' = IF r.rv = ENULL THEN qcount ELSE [qcount EXCEPT ![r.rv] = @ - 1]
        /\ UNCHANGED <<free_head, asl>>

insertBlocked(s, p) ==
    LET x == Find(cur_sem, semd, s)
        A == IF x = ENULL THEN takeSemd(Asl, s) ELSE Asl
        y == IF x = ENULL THEN free_head_s ELSE x
        r == insertProc(A.L, A.semd[y].s_link, p)
    IN  /\ Allocated(p) /\ qcount[p] < SEMMAX /\ s \notin {semvec[p][i] : i \in Slot}
        /\ IF cur_sem # ENULL /\ x = ENULL /\ free_head_s = ENULL
           THEN ret' = [Returned(ENULL) EXCEPT !.full = TRUE] /\ UNCHANGED <<procs, asl>>
           ELSE /\ ret' = Returned(ENULL)
                /\ SetAsl([A EXCEPT !.L = r.L, !.semd[y].s_link = r.tp])
                /\ semvec' = [semvec EXCEPT ![p] = setSem(@, s)]
                /\ qcount' = [qcount EXCEPT ![p] = @ + 1]
                /\ UNCHANGED free_head
        /\ UNCHANGED running_queue

removeBlocked(s) ==
    LET x == Find(cur_sem, semd, s)
        r == removeProc(p_link, semd[x].s_link)
    IN  /\ IF x = ENULL THEN ret' = Returned(ENULL) /\ UNCHANGED <<procs, asl>>
           ELSE /\ ret' = Returned(r.rv)
                /\ SetAsl(shrink(Asl, x, r))
                /\ semvec' = [semvec EXCEPT ![r.rv] = setSem2(@, s)]
                /\ qcount' = [qcount EXCEPT ![r.rv] = @ - 1]
                /\ UNCHANGED free_head
        /\ UNCHANGED running_queue

\* The semaphores whose value is raised are part of what is returned.
outBlocked(p) ==
    LET st == outAll(p)
    IN  /\ ret' = [proc |-> st.rv, full |-> FALSE, raised |-> st.raised]
        /\ SetAsl(st.A)
        /\ semvec' = [semvec EXCEPT ![p] = st.sv]
        /\ qcount' = [qcount EXCEPT ![p] = @ - st.left]
        /\ UNCHANGED <<free_head, running_queue>>

Call == \/ allocProc
        \/ removeRunning
        \/ \E p \in Proc : freeProc(p) \/ insertRunning(p) \/ outRunning(p) \/ outBlocked(p)
        \/ \E s \in Sem : removeBlocked(s) \/ \E p \in Proc : insertBlocked(s, p)

Next == Call /\ view' = View(p_link', free_head', running_queue', semd', cur_sem')

Spec == Init /\ [][Next]_vars

----------------------------------------------------------------------------
(***************************************************************************)
(* Properties.                                                             *)
(***************************************************************************)
Abs == INSTANCE AbstractQueues WITH free <- view.free, q <- view.q

\* The links implement the abstract queues: every call leaves the queues and
\* the free list in the right order, disturbs no other queue, and returns the
\* right process, also for a process that stands in several queues.
ImplementsQueues == Abs!ASpec

\* qcount is the number of queues a process stands in (Sem_OP makes a process
\* ready when it is 0), one link is in use for each of them, and semvec names
\* the semaphores among them (outBlocked relies on it).
CountsAgree ==
    \A p \in Proc : Allocated(p) =>
        /\ qcount[p] = Cardinality(Abs!In(p))
        /\ qcount[p] = Cardinality({i \in Slot : p_link[p][i] # None})
        /\ {semvec[p][i] : i \in Slot} \ {ENULL} = Abs!In(p) \cap Sem
        /\ \A i, j \in Slot : semvec[p][i] = semvec[p][j] => i = j \/ semvec[p][i] = ENULL

\* Every descriptor is on one of the two lists, both lists are linked both
\* ways, and the ASL holds one descriptor, with a queue that is not empty, for
\* each semaphore in use: headASL is how intdeadlock finds out that nobody
\* waits.
DescriptorsOK ==
    LET used == List(cur_sem, semd)
        frees == List(free_head_s, semd)
        back(l) == \A n \in DOMAIN l : semd[l[n]].s_prev = IF n = 1 THEN ENULL ELSE l[n-1]
    IN  /\ Len(used) + Len(frees) = SEMD
        /\ ToSet(used) \cup ToSet(frees) = Semd
        /\ back(used) /\ back(frees)
        /\ \A x \in ToSet(used) : semd[x].s_link # None /\ semd[x].s_semAdd \in Sem
        /\ \A x, y \in ToSet(used) : semd[x].s_semAdd = semd[y].s_semAdd => x = y
        /\ \A x \in ToSet(frees) : semd[x].s_link = None
=============================================================================
