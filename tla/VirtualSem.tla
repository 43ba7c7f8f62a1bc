----------------------------- MODULE VirtualSem -----------------------------
(***************************************************************************)
(* SYS11 and SYS12 (support/part2/slsyscall2.c): P and V on semaphores     *)
(* that the T-processes keep in segment 2.  protected_sem protects the     *)
(* values and vs_arr.  A process that has to wait takes an entry of vs_arr *)
(* and gives protected_sem up before it waits on that entry's semaphore.   *)
(*                                                                         *)
(* A definition whose name ends in an underscore and a word, and which     *)
(* comes before the one it is named after, is a faulty variant of it.      *)
(***************************************************************************)
EXTENDS Semaphores

CONSTANTS TProc,      \* the T-processes
          Addr,       \* the addresses of semaphores in segment 2
          NULL,       \* no address; as an argument, one below segment 2
          BEYOND,     \* as an argument, an address in segment 3 or above
          VS,         \* the number of entries of vs_arr
          MaxVal      \* bound: V is called on a semaphore below it only

ASSUME VirtualAssumption == /\ IsFiniteSet(TProc) /\ IsFiniteSet(Addr)
                            /\ NULL \notin Addr /\ BEYOND \notin Addr
                            /\ BEYOND # NULL
                            /\ VS \in Nat /\ VS >= Cardinality(TProc)
                            /\ MaxVal \in Nat

Entry == 1..VS
Argument == Addr \cup {NULL, BEYOND}
protected_sem == 0

VARIABLES virt,       \* *vpop_addr, for every address
          addr,       \* vs_arr[i].addr
          sem,        \* protected_sem, and vs_arr[i].sem_value for entry i
          pc,         \* where a T-process is
          arg,        \* the address it passed
          entry       \* the entry it uses

\* History: avail[a] is the initial value of a, plus the V operations on it,
\* minus the P operations on it that have returned.  overtaken: a process
\* waited on an entry before another one that had taken it for another address.
VARIABLES avail, overtaken

vars == <<virt, addr, sem, pc, arg, entry, avail, overtaken>>

Init == /\ virt = [a \in Addr |-> 0]
        /\ addr = [i \in Entry |-> NULL]
        /\ sem = [i \in 0..VS |-> Semaphore(IF i = protected_sem THEN 1 ELSE 0)]
        /\ pc = [t \in TProc |-> "user"]
        /\ arg = [t \in TProc |-> NULL]
        /\ entry = [t \in TProc |-> 1]
        /\ avail = virt
        /\ overtaken = FALSE

\* The entries whose addr is a, and the first of them.
Entries(a) == {i \in Entry : addr[i] = a}
First_Before(S) == (CHOOSE i \in S : \A j \in S : i <= j) - 1
First(S) == CHOOSE i \in S : \A j \in S : i <= j

At(t, l) == pc[t] = l /\ Ready(sem, t)
Goto(t, l) == pc' = [pc EXCEPT ![t] = l]

\* The handler of t returns, and its local variables are gone.
Return(t) == /\ Goto(t, "user")
             /\ arg' = [arg EXCEPT ![t] = NULL]
             /\ entry' = [entry EXCEPT ![t] = 1]

----------------------------------------------------------------------------
\* Either handler begins with P(&protected_sem).
Enter(t, l, a) ==
    /\ At(t, "user")
    /\ sem' = P(sem, protected_sem, t)
    /\ arg' = [arg EXCEPT ![t] = a]
    /\ Goto(t, l)
    /\ UNCHANGED <<virt, addr, entry, avail, overtaken>>

\* An address below segment 2: the caller gives protected_sem back and is
\* terminated.
Refuse(t, l) ==
    /\ At(t, l)
    /\ arg[t] = NULL
    /\ sem' = V(sem, protected_sem)
    /\ Goto(t, "gone")
    /\ UNCHANGED <<virt, addr, arg, entry, avail, overtaken>>

\* An address above segment 2 passes the test, which has no upper bound.  The
\* segment is not present, so the first look at the value traps; slmmhandler
\* terminates the caller, and protected_sem stays taken.
Trap(t, l) ==
    /\ At(t, l)
    /\ arg[t] = BEYOND
    /\ Goto(t, "trapped")
    /\ UNCHANGED <<virt, addr, sem, arg, entry, avail, overtaken>>

\* a value of 0 lets P pass too
P_Pass_Zero(t) ==
    /\ At(t, "P")
    /\ arg[t] \in Addr
    /\ virt[arg[t]] >= 0
    /\ virt' = [virt EXCEPT ![arg[t]] = @ - 1]
    /\ avail' = [avail EXCEPT ![arg[t]] = @ - 1]
    /\ sem' = V(sem, protected_sem)
    /\ Return(t)
    /\ UNCHANGED <<addr, overtaken>>

P_Pass(t) ==
    /\ At(t, "P")
    /\ arg[t] \in Addr
    /\ virt[arg[t]] > 0
    /\ virt' = [virt EXCEPT ![arg[t]] = @ - 1]
    /\ avail' = [avail EXCEPT ![arg[t]] = @ - 1]
    /\ sem' = V(sem, protected_sem)
    /\ Return(t)
    /\ UNCHANGED <<addr, overtaken>>

\* the value is not decremented
P_Take_Keeps(t) ==
    /\ At(t, "P")
    /\ arg[t] \in Addr
    /\ virt[arg[t]] <= 0
    /\ Entries(NULL) # {}
    /\ addr' = [addr EXCEPT ![First(Entries(NULL))] = arg[t]]
    /\ entry' = [entry EXCEPT ![t] = First(Entries(NULL))]
    /\ sem' = V(sem, protected_sem)
    /\ Goto(t, "wait")
    /\ UNCHANGED <<virt, arg, avail, overtaken>>

\* P has to wait: it takes the first free entry.  When there is none, the
\* handler returns and keeps protected_sem.
P_Take(t) ==
    /\ At(t, "P")
    /\ arg[t] \in Addr
    /\ virt[arg[t]] <= 0
    /\ IF Entries(NULL) = {} THEN Return(t) /\ UNCHANGED <<virt, addr, sem>>
       ELSE /\ addr' = [addr EXCEPT ![First(Entries(NULL))] = arg[t]]
            /\ entry' = [entry EXCEPT ![t] = First(Entries(NULL))]
            /\ virt' = [virt EXCEPT ![arg[t]] = @ - 1]
            /\ sem' = V(sem, protected_sem)
            /\ Goto(t, "wait")
            /\ UNCHANGED arg
    /\ UNCHANGED <<avail, overtaken>>

P_Wait(t) ==
    /\ At(t, "wait")
    /\ sem' = P(sem, entry[t], t)
    /\ overtaken' = (overtaken \/ \E u \in TProc : /\ pc[u] = "wait"
                                                   /\ entry[u] = entry[t]
                                                   /\ arg[u] # arg[t])
    /\ Goto(t, "waited")
    /\ UNCHANGED <<virt, addr, arg, entry, avail>>

P_Return(t) ==
    /\ At(t, "waited")
    /\ avail' = [avail EXCEPT ![arg[t]] = @ - 1]
    /\ Return(t)
    /\ UNCHANGED <<virt, addr, sem, overtaken>>

\* a V that finds nobody waiting does not give protected_sem back
V_Raise_Keeps(t) ==
    /\ At(t, "V")
    /\ arg[t] \in Addr
    /\ virt[arg[t]] >= 0
    /\ virt' = [virt EXCEPT ![arg[t]] = @ + 1]
    /\ avail' = [avail EXCEPT ![arg[t]] = @ + 1]
    /\ Return(t)
    /\ UNCHANGED <<addr, sem, overtaken>>

V_Raise(t) ==
    /\ At(t, "V")
    /\ arg[t] \in Addr
    /\ virt[arg[t]] >= 0
    /\ virt' = [virt EXCEPT ![arg[t]] = @ + 1]
    /\ avail' = [avail EXCEPT ![arg[t]] = @ + 1]
    /\ sem' = V(sem, protected_sem)
    /\ Return(t)
    /\ UNCHANGED <<addr, overtaken>>

\* the entry stays taken
V_Give_Keeps(t) ==
    /\ At(t, "V")
    /\ arg[t] \in Addr
    /\ virt[arg[t]] < 0
    /\ Entries(arg[t]) # {}
    /\ entry' = [entry EXCEPT ![t] = First(Entries(arg[t]))]
    /\ virt' = [virt EXCEPT ![arg[t]] = @ + 1]
    /\ avail' = [avail EXCEPT ![arg[t]] = @ + 1]
    /\ sem' = V(sem, protected_sem)
    /\ Goto(t, "wake")
    /\ UNCHANGED <<addr, arg, overtaken>>

\* V finds somebody waiting: it frees the first entry taken for its address.
\* When there is none, the handler returns and keeps protected_sem.
V_Give(t) ==
    /\ At(t, "V")
    /\ arg[t] \in Addr
    /\ virt[arg[t]] < 0
    /\ IF Entries(arg[t]) = {}
       THEN Return(t) /\ UNCHANGED <<virt, addr, sem, avail>>
       ELSE /\ addr' = [addr EXCEPT ![First(Entries(arg[t]))] = NULL]
            /\ entry' = [entry EXCEPT ![t] = First(Entries(arg[t]))]
            /\ virt' = [virt EXCEPT ![arg[t]] = @ + 1]
            /\ avail' = [avail EXCEPT ![arg[t]] = @ + 1]
            /\ sem' = V(sem, protected_sem)
            /\ Goto(t, "wake")
            /\ UNCHANGED arg
    /\ UNCHANGED overtaken

\* nobody is woken
V_Wake_Lost(t) == At(t, "wake") /\ Return(t)
                  /\ UNCHANGED <<virt, addr, sem, avail, overtaken>>

V_Wake(t) ==
    /\ At(t, "wake")
    /\ sem' = V(sem, entry[t])
    /\ Return(t)
    /\ UNCHANGED <<virt, addr, avail, overtaken>>

P_Virtual_Semaphore(t) == \/ P_Pass(t) \/ P_Take(t) \/ P_Wait(t) \/ P_Return(t)
                          \/ Refuse(t, "P") \/ Trap(t, "P")
V_Virtual_Semaphore(t) == \/ V_Raise(t) \/ V_Give(t) \/ V_Wake(t)
                          \/ Refuse(t, "V") \/ Trap(t, "V")

Next == \E t \in TProc :
    \/ \E a \in Argument : Enter(t, "P", a)
    \/ \E a \in Argument \ Addr : Enter(t, "V", a)
    \/ \E a \in Addr : virt[a] < MaxVal /\ Enter(t, "V", a)
    \/ P_Virtual_Semaphore(t)
    \/ V_Virtual_Semaphore(t)

Spec == Init /\ [][Next]_vars

\* A handler that can go on does: the nucleus runs every ready process.
FairSpec == Spec /\ \A t \in TProc : WF_vars(P_Virtual_Semaphore(t) \/ V_Virtual_Semaphore(t))

----------------------------------------------------------------------------
Sum(f) == FoldFunction(+, 0, f)
Waiting(v) == IF v < 0 THEN -v ELSE 0

\* The variables have the types of the declarations above.
TypeOK == /\ virt \in [Addr -> Int]
          /\ addr \in [Entry -> Addr \cup {NULL}]
          /\ sem \in [0..VS -> [val : Int, q : Seq(TProc)]]
          /\ pc \in [TProc -> {"user", "P", "V", "wait", "waited", "wake", "gone",
                               "trapped"}]
          /\ arg \in [TProc -> Argument]
          /\ entry \in [TProc -> Entry]
          /\ avail \in [Addr -> Int]
          /\ overtaken \in BOOLEAN

\* A negative value counts the entries taken for its address, so a V that
\* finds one always finds an entry and a P always finds a free one: neither
\* loop over vs_arr falls through.
EntriesCount == \A a \in Addr : Cardinality(Entries(a)) = Waiting(virt[a])

\* No wakeup is lost or given twice: when nobody is on the way between vs_arr
\* and the entry's semaphore, as many processes wait as the values say.
NoWakeupLost ==
    (\A t \in TProc : pc[t] \notin {"wait", "wake"}) =>
        Cardinality({t \in TProc : pc[t] = "waited" /\ ~Ready(sem, t)})
            = Sum([a \in Addr |-> Waiting(virt[a])])

\* SYS12 "performs a P operation": it returns only to a process its semaphore
\* has a V for.  An entry is free again as soon as V has chosen it, though its
\* process may not wait on it yet; when another one takes it for another
\* semaphore and waits first, it is let through in the other's place.  Then
\* too it stands for one that should have been: there are no more returns
\* than V operations.
OwnSemaphore == /\ Sum(avail) >= 0
                /\ overtaken \/ \A a \in Addr : avail[a] >= 0

\* A T-process that calls SYS11 or SYS12 gets past protected_sem, unless a
\* caller has trapped on its address and taken protected_sem with it.
GetsIn == \A t \in TProc : (pc[t] \in {"P", "V"}) ~>
              (pc[t] \notin {"P", "V"} \/ \E u \in TProc : pc[u] = "trapped")

\* SYS11 "performs a V operation" and SYS12 a P operation, and a caller whose
\* address does "not refer to segment 2" is terminated, as by SYS17, and so
\* keeps nobody else from it: every other caller gets past protected_sem.
AllGetIn == \A t \in TProc : (pc[t] \in {"P", "V"}) ~> (pc[t] \notin {"P", "V"})

\* SYS12 "performs a P operation on a semaphore whose virtual address is in
\* D4": no address lets more callers through than it had V operations for.
EachItsOwn == \A a \in Addr : avail[a] >= 0
=============================================================================
