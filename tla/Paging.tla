------------------------------- MODULE Paging -------------------------------
(***************************************************************************)
(* Virtual memory (support/part2/page.c and slmmhandler): T-processes      *)
(* fault on pages of their own segment 1 and of segment 2, which they      *)
(* share; getfreeframe and pagein bring them in, pagedaemon writes pages   *)
(* out to the floppy disk by second chance, putframe gives back what a     *)
(* process that ends has.                                                  *)
(*                                                                         *)
(* sem_mm protects pfs_arr, the page tables and the map of the floppy; it  *)
(* is given up while the floppy works.  A critical section is one step.    *)
(***************************************************************************)
EXTENDS Semaphores

CONSTANTS N,          \* TER: the T-processes are 1..N
          Page,       \* the pages they use of segment 1, as numbers
          Boot,       \* the page with the boot code (31)
          SharedPage, \* the pages they use of segment 2
          F,          \* MAXFRAMES
          S,          \* the number of sectors of the floppy disk
          LOW, HIGH,
          MaxSignal   \* bound: a process faults while sem_page is below it

TProc == 1..N
PAGED == 0            \* pagedaemon among the processes
SHARED == 0           \* the owner of segment 2
Frame == 0..(F - 1)
Sector == 1..S
Private == TProc \X Page
Shared == {SHARED} \X SharedPage
VPage == Private \cup Shared
NONE == <<>>          \* no page

ASSUME PagingAssumption ==
    /\ N \in Nat /\ F \in Nat \ {0} /\ F >= N /\ S \in Nat
    /\ Page \subseteq Nat /\ IsFiniteSet(Page) /\ Boot \in Page
    /\ IsFiniteSet(SharedPage)
    /\ S >= Cardinality(VPage)
    /\ LOW \in Nat /\ HIGH \in Nat /\ LOW < HIGH
    /\ MaxSignal \in Nat

VARIABLES pd_p, pd_r, \* the bits of the page tables
          pd_frame,   \* the frame of a page that is present, or else its sector
          pfs_arr,    \* for a frame: in use, the page last put there, its sector or 0
          disk,       \* the sectors in use
          sem,        \* sem_mm, sem_pf, sem_page, sem_floppy
          pc, loc,    \* a T-process: where it is, and its local variables
          at, i, to   \* pagedaemon: where it is, the frame, the sector

\* History: the page whose content, as it was written last, a frame or a
\* sector in use holds.  breach: a process got the frame that another one had
\* got for the same shared page, or that was being written out ("hit"); it ended
\* while a page of its own was being written out ("exit").
VARIABLES mem, floppy, breach

tables == <<pd_p, pd_r, pd_frame, pfs_arr, disk>>
contents == <<mem, floppy>>
daemon == <<at, i, to>>
vars == <<tables, contents, sem, pc, loc, daemon, breach>>

NoLocals == [vp |-> NONE, f |-> 0, pos |-> 0]

\* p1 has put the boot code of process t into frame t - 1.
Init == /\ pd_p = [v \in VPage |-> v[2] = Boot /\ v \in Private]
        /\ pd_r = [v \in VPage |-> TRUE]
        /\ pd_frame = [v \in VPage |-> IF pd_p[v] THEN v[1] - 1 ELSE 0]
        /\ pfs_arr = [f \in Frame |-> [pid |-> f < N, pos |-> 0,
                                       vp |-> IF f < N THEN <<f + 1, Boot>> ELSE NONE]]
        /\ disk = {}
        /\ sem = [mm |-> Semaphore(1), floppy |-> Semaphore(1), pf |-> Semaphore(F - N),
                  page |-> Semaphore(Cardinality({t \in TProc : F - t <= LOW}))]
        /\ pc = [t \in TProc |-> "user"]
        /\ loc = [t \in TProc |-> NoLocals]
        /\ at = "top" /\ i = 0 /\ to = 0
        /\ mem = [f \in Frame |-> pfs_arr[f].vp]
        /\ floppy = [s \in Sector |-> NONE]
        /\ breach = "none"

Unused == {f \in Frame : ~pfs_arr[f].pid}
First(X) == CHOOSE x \in X : \A y \in X : x <= y
At(t, l) == pc[t] = l /\ Ready(sem, t)
Goto(t, l) == pc' = [pc EXCEPT ![t] = l]
Accessible(t) == {v \in VPage : v[1] \in {t, SHARED}}

----------------------------------------------------------------------------
\* A T-process uses a page: the hardware sets pd_r.
Touch(t, v) ==
    /\ At(t, "user")
    /\ v \in Accessible(t)
    /\ pd_p[v]
    /\ pd_r' = [pd_r EXCEPT ![v] = TRUE]
    /\ UNCHANGED <<pd_p, pd_frame, pfs_arr, disk, contents, sem, pc, loc, daemon, breach>>

\* slmmhandler calls getfreeframe, which begins with P(&sem_pf); P(&sem_mm).
Fault(t, v) ==
    /\ At(t, "user")
    /\ v \in Accessible(t)
    /\ ~pd_p[v]
    /\ sem["page"].val < MaxSignal
    /\ loc' = [loc EXCEPT ![t].vp = v]
    /\ sem' = P(sem, "pf", t)
    /\ Goto(t, "pf")
    /\ UNCHANGED <<tables, contents, daemon, breach>>

LockFrames(t) ==
    /\ At(t, "pf")
    /\ sem' = P(sem, "mm", t)
    /\ Goto(t, "mm")
    /\ UNCHANGED <<tables, contents, loc, daemon, breach>>

\* The frames that hold the shared page v; another process's fault or
\* pagedaemon is at work on it, since the fault found it absent.
Holding(v) == {f \in Frame : pfs_arr[f].pid /\ v \in Shared /\ pfs_arr[f].vp = v}

\* pagedaemon is not told
getfreeframe_Silent(t) ==
    LET v == loc[t].vp
        f == First(IF Holding(v) # {} THEN Holding(v) ELSE Unused) IN
    /\ At(t, "mm")
    /\ IF Holding(v) = {} /\ Unused = {}
       THEN Goto(t, "wild") /\ UNCHANGED <<pfs_arr, loc, breach>>
       ELSE /\ pfs_arr' = IF Holding(v) # {} THEN pfs_arr
                          ELSE [pfs_arr EXCEPT ![f] = [pid |-> TRUE, vp |-> v, pos |-> 0]]
            /\ breach' = IF Holding(v) # {} /\ breach = "none" THEN "hit" ELSE breach
            /\ loc' = [loc EXCEPT ![t].f = f]
            /\ Goto(t, "got")
    /\ sem' = V(sem, "mm")
    /\ UNCHANGED <<pd_p, pd_r, pd_frame, disk, contents, daemon>>

getfreeframe(t) ==
    LET v == loc[t].vp
        f == First(IF Holding(v) # {} THEN Holding(v) ELSE Unused) IN
    /\ At(t, "mm")
    /\ IF Holding(v) = {} /\ Unused = {}
       THEN Goto(t, "wild") /\ UNCHANGED <<pfs_arr, loc, breach>>
       ELSE /\ pfs_arr' = IF Holding(v) # {} THEN pfs_arr
                          ELSE [pfs_arr EXCEPT ![f] = [pid |-> TRUE, vp |-> v, pos |-> 0]]
            /\ breach' = IF Holding(v) # {} /\ breach = "none" THEN "hit" ELSE breach
            /\ loc' = [loc EXCEPT ![t].f = f]
            /\ Goto(t, "got")
    /\ sem' = V(IF sem["pf"].val <= LOW THEN V(sem, "page") ELSE sem, "mm")
    /\ UNCHANGED <<pd_p, pd_r, pd_frame, disk, contents, daemon>>

\* A page with pd_r off has been written out and is paged in.  For another,
\* a new one, whatever the frame holds is its content.
TestReferenced(t) ==
    /\ At(t, "got")
    /\ sem' = P(sem, "mm", t)
    /\ IF pd_r[loc[t].vp]
       THEN Goto(t, "set") /\ mem' = [mem EXCEPT ![loc[t].f] = loc[t].vp]
       ELSE Goto(t, "in") /\ UNCHANGED mem
    /\ UNCHANGED <<tables, floppy, loc, daemon, breach>>

\* the floppy may be in use
pagein_Start_Free(t) ==
    /\ At(t, "in")
    /\ loc' = [loc EXCEPT ![t].pos = pd_frame[loc[t].vp]]
    /\ sem' = V(sem, "mm")
    /\ Goto(t, "reading")
    /\ UNCHANGED <<tables, contents, daemon, breach>>

\* pagein; page_in_out_helper exchanges sem_mm for sem_floppy.
pagein_Start(t) ==
    /\ At(t, "in")
    /\ loc' = [loc EXCEPT ![t].pos = pd_frame[loc[t].vp]]
    /\ sem' = P(V(sem, "mm"), "floppy", t)
    /\ Goto(t, "reading")
    /\ UNCHANGED <<tables, contents, daemon, breach>>

pagein_Read(t) ==
    /\ At(t, "reading")
    /\ mem' = [mem EXCEPT ![loc[t].f] = IF loc[t].pos = 0 THEN NONE ELSE floppy[loc[t].pos]]
    /\ sem' = V(P(sem, "mm", t), "floppy")
    /\ Goto(t, "read")
    /\ UNCHANGED <<tables, floppy, loc, daemon, breach>>

pagein_End(t) ==
    /\ At(t, "read")
    /\ pfs_arr' = [pfs_arr EXCEPT ![loc[t].f].pos = loc[t].pos]
    /\ pd_r' = [pd_r EXCEPT ![loc[t].vp] = TRUE]
    /\ sem' = V(sem, "mm")
    /\ Goto(t, "paged")
    /\ UNCHANGED <<pd_p, pd_frame, disk, contents, loc, daemon, breach>>

LockTable(t) ==
    /\ At(t, "paged")
    /\ sem' = P(sem, "mm", t)
    /\ Goto(t, "set")
    /\ UNCHANGED <<tables, contents, loc, daemon, breach>>

\* From now on the page may be written to: what it was on the floppy is old.
SetPresent(t) ==
    /\ At(t, "set")
    /\ pd_frame' = [pd_frame EXCEPT ![loc[t].vp] = loc[t].f]
    /\ pd_p' = [pd_p EXCEPT ![loc[t].vp] = TRUE]
    /\ floppy' = [s \in Sector |-> IF floppy[s] = loc[t].vp THEN NONE ELSE floppy[s]]
    /\ sem' = V(sem, "mm")
    /\ loc' = [loc EXCEPT ![t] = NoLocals]
    /\ Goto(t, "user")
    /\ UNCHANGED <<pd_r, pfs_arr, disk, mem, daemon, breach>>

slmmhandler(t) == \/ LockFrames(t) \/ getfreeframe(t) \/ TestReferenced(t)
                  \/ pagein_Start(t) \/ pagein_Read(t) \/ pagein_End(t)
                  \/ LockTable(t) \/ SetPresent(t)

\* Terminate, which slmmhandler calls too, for a segment a T-process may not use.
Terminate(t) ==
    /\ At(t, "user")
    /\ sem' = P(sem, "mm", t)
    /\ Goto(t, "exit")
    /\ UNCHANGED <<tables, contents, loc, daemon, breach>>

\* n times V(&sem_pf)
ReturnFrames(m, n) ==
    LET after[k \in 0..n] == IF k = 0 THEN m ELSE V(after[k-1], "pf")
    IN  after[n]

Own(t) == {f \in Frame : pfs_arr[f].pid /\ pfs_arr[f].vp \in Private /\ pfs_arr[f].vp[1] = t}

\* the frames are not counted
putframe_Silent(t, other) ==
    LET Freed(p) == /\ ~pd_r[<<t, p>>] /\ ~pd_p[<<t, p>>]
                    /\ IF p \in Frame THEN pfs_arr[p].vp \notin Shared ELSE p \notin other IN
    /\ At(t, "exit")
    /\ pfs_arr' = [f \in Frame |-> IF f \in Own(t) THEN [pfs_arr[f] EXCEPT !.pid = FALSE] ELSE pfs_arr[f]]
    /\ disk' = disk \ {pd_frame[<<t, p>>] : p \in {q \in Page : Freed(q)}}
    /\ mem' = [f \in Frame |-> IF f \in Own(t) THEN NONE ELSE mem[f]]
    /\ floppy' = [s \in Sector |-> IF s \in disk' THEN floppy[s] ELSE NONE]
    /\ sem' = V(sem, "mm")
    /\ breach' = IF at \in {"write", "written"} /\ i \in Own(t) /\ breach = "none"
                 THEN "exit" ELSE breach
    /\ Goto(t, "gone")
    /\ UNCHANGED <<pd_p, pd_r, pd_frame, loc, daemon>>

\* The frames of t are free, and the sectors of its pages that are written
\* out, but for a page p whose number is that of a frame last used for segment
\* 2: the test reads pfs_arr[p], beyond its end for the pages in other.
putframe(t, other) ==
    LET Freed(p) == /\ ~pd_r[<<t, p>>] /\ ~pd_p[<<t, p>>]
                    /\ IF p \in Frame THEN pfs_arr[p].vp \notin Shared ELSE p \notin other IN
    /\ At(t, "exit")
    /\ pfs_arr' = [f \in Frame |-> IF f \in Own(t) THEN [pfs_arr[f] EXCEPT !.pid = FALSE] ELSE pfs_arr[f]]
    /\ disk' = disk \ {pd_frame[<<t, p>>] : p \in {q \in Page : Freed(q)}}
    /\ mem' = [f \in Frame |-> IF f \in Own(t) THEN NONE ELSE mem[f]]
    /\ floppy' = [s \in Sector |-> IF s \in disk' THEN floppy[s] ELSE NONE]
    /\ sem' = V(ReturnFrames(sem, Cardinality(Own(t))), "mm")
    /\ breach' = IF at \in {"write", "written"} /\ i \in Own(t) /\ breach = "none"
                 THEN "exit" ELSE breach
    /\ Goto(t, "gone")
    /\ UNCHANGED <<pd_p, pd_r, pd_frame, loc, daemon>>

p_alive == Cardinality({t \in TProc : pc[t] \notin {"exit", "gone"}})

----------------------------------------------------------------------------
\* pagedaemon.

Daemon(l) == at = l /\ Ready(sem, PAGED)

WaitForSignal ==
    /\ Daemon("top")
    /\ IF p_alive > 0 THEN sem' = P(sem, "page", PAGED) /\ at' = "test"
                      ELSE UNCHANGED sem /\ at' = "gone"
    /\ UNCHANGED <<tables, contents, pc, loc, i, to, breach>>

TestCount ==
    /\ Daemon("test")
    /\ at' = IF sem["pf"].val < HIGH THEN "lock" ELSE "top"
    /\ UNCHANGED <<tables, contents, sem, pc, loc, i, to, breach>>

LockFrame ==
    /\ Daemon("lock")
    /\ sem' = P(sem, "mm", PAGED)
    /\ at' = "look"
    /\ UNCHANGED <<tables, contents, pc, loc, i, to, breach>>

\* one frame too many
Advance_Beyond == /\ i' = (i + 1) % (F + 1)
           /\ at' = IF i = F THEN "test" ELSE "lock"

\* The next frame, or out of the for loop.
Advance == /\ i' = (i + 1) % F
           /\ at' = IF i = F - 1 THEN "test" ELSE "lock"

Candidate == pfs_arr[i].pid /\ pd_p[pfs_arr[i].vp]

Pass ==
    /\ Daemon("look")
    /\ Candidate => pd_r[pfs_arr[i].vp]
    /\ pd_r' = IF Candidate THEN [pd_r EXCEPT ![pfs_arr[i].vp] = FALSE] ELSE pd_r
    /\ sem' = V(sem, "mm")
    /\ Advance
    /\ UNCHANGED <<pd_p, pd_frame, pfs_arr, disk, contents, pc, loc, to, breach>>

get_disk_pos == IF Sector \subseteq disk THEN 0 ELSE First(Sector \ disk)

\* the page stays present
WriteOut_Present ==
    LET v == pfs_arr[i].vp
        s == IF pfs_arr[i].pos # 0 THEN pfs_arr[i].pos ELSE get_disk_pos IN
    /\ Daemon("look")
    /\ Candidate /\ ~pd_r[v]
    /\ pd_p' = pd_p
    /\ pd_frame' = [pd_frame EXCEPT ![v] = s]
    /\ disk' = disk \cup {s}
    /\ to' = s
    /\ sem' = P(V(sem, "mm"), "floppy", PAGED)
    /\ at' = "write"
    /\ UNCHANGED <<pd_r, pfs_arr, contents, pc, loc, i, breach>>

\* The page is made absent before it is written; a page that came from the
\* floppy keeps its sector.
WriteOut ==
    LET v == pfs_arr[i].vp
        s == IF pfs_arr[i].pos # 0 THEN pfs_arr[i].pos ELSE get_disk_pos IN
    /\ Daemon("look")
    /\ Candidate /\ ~pd_r[v]
    /\ pd_p' = [pd_p EXCEPT ![v] = FALSE]
    /\ pd_frame' = [pd_frame EXCEPT ![v] = s]
    /\ disk' = disk \cup {s}
    /\ to' = s
    /\ sem' = P(V(sem, "mm"), "floppy", PAGED)
    /\ at' = "write"
    /\ UNCHANGED <<pd_r, pfs_arr, contents, pc, loc, i, breach>>

Write ==
    /\ Daemon("write")
    /\ floppy' = [floppy EXCEPT ![to] = mem[i]]
    /\ sem' = V(P(sem, "mm", PAGED), "floppy")
    /\ at' = "written"
    /\ UNCHANGED <<tables, mem, pc, loc, i, to, breach>>

FreeFrame ==
    /\ Daemon("written")
    /\ pfs_arr' = [pfs_arr EXCEPT ![i].pid = FALSE]
    /\ sem' = V(V(sem, "pf"), "mm")
    /\ Advance
    /\ to' = 0
    /\ mem' = [mem EXCEPT ![i] = NONE]
    /\ UNCHANGED <<pd_p, pd_r, pd_frame, disk, floppy, pc, loc, breach>>

pagedaemon == \/ WaitForSignal \/ TestCount \/ LockFrame \/ Pass
              \/ WriteOut \/ Write \/ FreeFrame

Next == \/ pagedaemon
        \/ \E t \in TProc :
              \/ \E v \in VPage : Touch(t, v) \/ Fault(t, v)
              \/ slmmhandler(t)
              \/ Terminate(t)
              \/ \E other \in SUBSET (Page \ Frame) : putframe(t, other)

Spec == Init /\ [][Next]_vars

\* The nucleus runs every ready process and the floppy disk ends what it was
\* asked to do.
FairSpec == /\ Spec /\ WF_vars(pagedaemon)
            /\ \A t \in TProc : WF_vars(slmmhandler(t) \/ putframe(t, {}))

----------------------------------------------------------------------------
\* The variables have the types of the declarations above.
TypeOK == /\ pd_p \in [VPage -> BOOLEAN] /\ pd_r \in [VPage -> BOOLEAN]
          /\ pd_frame \in [VPage -> Frame \cup Sector \cup {0}]
          /\ pfs_arr \in [Frame -> [pid : BOOLEAN, vp : VPage \cup {NONE}, pos : 0..S]]
          /\ disk \subseteq Sector
          /\ sem \in [{"mm", "pf", "page", "floppy"} -> [val : Int, q : Seq(0..N)]]
          /\ pc \in [TProc -> {"user", "pf", "mm", "got", "in", "reading", "read",
                               "paged", "set", "exit", "gone"}]
          /\ loc \in [TProc -> [vp : VPage \cup {NONE}, f : Frame, pos : 0..S]]
          /\ at \in {"top", "test", "lock", "look", "write", "written", "gone"}
          /\ i \in Frame /\ to \in 0..S
          /\ mem \in [Frame -> VPage \cup {NONE}]
          /\ floppy \in [Sector -> VPage \cup {NONE}]
          /\ breach \in {"none", "hit", "exit"}

\* The pages of segment 2 and of the processes that have not ended.
Live(v) == v[1] = SHARED \/ pc[v[1]] # "gone"

\* A page that is present has a frame to itself.
FramesOwned == breach = "none" =>
    \A v \in VPage : Live(v) /\ pd_p[v] =>
        pfs_arr[pd_frame[v]].pid /\ pfs_arr[pd_frame[v]].vp = v

\* sem_pf is the number of free frames, less those promised to processes that
\* have not taken theirs yet; so getfreeframe finds one.
FreeCount == breach = "none" =>
    sem["pf"].val = Cardinality(Unused) - Cardinality({t \in TProc : pc[t] \in {"pf", "mm"}})

\* A T-process finds in a page what was written there last, however often the
\* page has been out, and when it comes back while it is still being written.
ContentKept == breach = "none" =>
    \A v \in VPage : Live(v) /\ pd_p[v] => mem[pd_frame[v]] = v

\* sem_pf "contains the number of free page frames": no frame is free that it
\* does not count, those promised to processes on their way set aside.
NoFrameForgotten ==
    sem["pf"].val >= Cardinality(Unused) - Cardinality({t \in TProc : pc[t] \in {"pf", "mm"}})

\* getfreeframe says of a frame that it finds in use for the same shared page
\* "we can use this frame": once a process was given one like that, a shared
\* page still has its frame while it is present.
SharedFrameKept == breach = "hit" =>
    \A v \in Shared : pd_p[v] => pfs_arr[pd_frame[v]].pid /\ pfs_arr[pd_frame[v]].vp = v

\* getfreeframe "returns a free page frame", and putframe releases only those
\* "of a process that died": no present page loses its frame.
FrameIsOwn ==
    \A v \in VPage : Live(v) /\ pd_p[v] =>
        pfs_arr[pd_frame[v]].pid /\ pfs_arr[pd_frame[v]].vp = v

\* When all T-processes wait for pages, one of them gets its own.
SomebodyRuns ==
    (\A t \in TProc : pc[t] # "user") ~>
        (breach # "none" \/ (\E t \in TProc : pc[t] = "user") \/ (\A t \in TProc : pc[t] = "gone"))
=============================================================================
