------------------------------ MODULE Workers ------------------------------
(***************************************************************************)
(* The pool of worker threads (folk.c) and the part of sysmon that sizes   *)
(* it (sysmon.c).                                                          *)
(*                                                                         *)
(* A thread claims a slot of threads[] by a CAS on its tid, and loops: it  *)
(* takes an item from its own queue, steals one from a random other slot   *)
(* or takes one from the global queue, and runs it.  A body may wait on    *)
(* I/O, for ever even.  sysmon counts the threads that do not wait; when   *)
(* they are too few it wakes a deactivated thread or spawns one, and the   *)
(* threads that it saw waiting donate their queue and deactivate when they *)
(* come back.  A thread whose body was killed donates its queue and exits. *)
(*                                                                         *)
(* The queues are double-ended queues with atomic operations (WorkQueue    *)
(* shows that they are); what an item does is data: the items it pushes,   *)
(* and how its body ends.                                                  *)
(***************************************************************************)
EXTENDS Integers, Sequences, SequencesExt, FiniteSets

CONSTANTS SlotCount,     \* THREADS_MAX
          Target,        \* targetNotBlockedWorkersCount
          Extra,         \* threads tolerated beyond the target: 15
          FirstWorkers,  \* threads main spawns beside itself: cpuUsableCount - 1
          Items,         \* work items
          Boot,          \* the boot program, which thread 0 runs first
          Pushes,        \* item -> items its body pushes, in order
          Ends,          \* item -> how its body ends
          MaxPosts,      \* bound: sem_posts nobody has waited for yet
          MaxBooting     \* bound: threads that look for a slot at a time

ASSUME WorkersAssumption ==
    /\ SlotCount \in Nat \ {0} /\ Target \in Nat /\ Extra \in Nat
    /\ MaxPosts \in Nat \ {0} /\ MaxBooting \in Nat /\ FirstWorkers \in 0 .. MaxBooting
    /\ Boot \in Items
    /\ Pushes \in [Items -> Seq(Items)]
    /\ Ends \in [Items -> {"returns", "waits", "never", "killable"}]

\* An item is one WorkQueueItem: one body pushes it, once, and main runs Boot
\* without pushing it.
ASSUME PushedOnce ==
    \A x, y \in Items : \A k \in 1 .. Len(Pushes[x]), l \in 1 .. Len(Pushes[y]) :
        /\ Pushes[x][k] # Boot
        /\ Pushes[x][k] = Pushes[y][l] => x = y /\ k = l

Slots == 0 .. SlotCount - 1

\* Names for the threads that look for a slot.
Boots == 1 .. MaxBooting

VARIABLES
    thread,       \* slot -> its ThreadControlBlock and where its thread is
    queue,        \* slot -> its workQueue: thieves at the head, owner at the end
    global,       \* globalWorkQueue
    threadCount,
    booting,      \* the slot that a new thread tries next, or NotBooting
    pushed,       \* items that were pushed, ...
    started       \* ... and those that a worker has run (both history)

vars == <<thread, queue, global, threadCount, booting, pushed, started>>

NotBooting == -1

\* A thread that has no item runs NoItem.
NoItem == "no item"

Places == {"none", "count", "setCount", "loop", "steal", "global", "run", "blocked",
           "after", "donate", "asleep", "awake", "exit"}

Thread == [at : Places,                     \* "none" iff tid = 0
           item : Items \cup {NoItem},      \* currentItem
           left : Seq(Items),               \* what its body has yet to push
           wasObservedAsBlocked : BOOLEAN,
           isDeactivated : BOOLEAN,
           reactivate : 0 .. MaxPosts]      \* semaphore

NoThread == [at |-> "none", item |-> NoItem, left |-> <<>>,
             wasObservedAsBlocked |-> FALSE, isDeactivated |-> FALSE,
             reactivate |-> 0]

Running(t, item) == [t EXCEPT !.at = "run", !.item = item, !.left = Pushes[item]]

TypeOK ==
    /\ thread \in [Slots -> Thread]
    /\ queue \in [Slots -> Seq(Items)]
    /\ global \in Seq(Items)
    /\ threadCount \in 1 .. SlotCount
    /\ booting \in [Boots -> {NotBooting} \cup 0 .. SlotCount]
    /\ pushed \subseteq Items /\ started \subseteq Items

\* main has slot 0, has spawned the first workers and runs the boot program.
Init ==
    /\ thread = [i \in Slots |-> IF i = 0 THEN Running(NoThread, Boot) ELSE NoThread]
    /\ queue = [i \in Slots |-> <<>>]
    /\ global = <<>>
    /\ threadCount = 1
    /\ booting = [b \in Boots |-> IF b <= FirstWorkers THEN 0 ELSE NotBooting]
    /\ pushed = {Boot} /\ started = {Boot}

At(i, place) == thread[i].at = place

Alive(i) == ~At(i, "none")

Goto(i, place) == thread' = [thread EXCEPT ![i].at = place]

\* The item starts to run in slot i.
Start(i, item) ==
    /\ thread' = [thread EXCEPT ![i] = Running(@, item)]
    /\ started' = started \cup {item}

-----------------------------------------------------------------------------
(* workerMain: try one slot after the other, from the first, and raise     *)
(* threadCount if need be: tested and set in two steps.  A slot that is    *)
(* freed behind the thread is not seen; one that has tried them all would  *)
(* end the process, "exceeded THREADS_MAX".                                *)

TrySlot(b, i) ==
    /\ booting[b] = i
    /\ \/ /\ Alive(i)
          /\ booting' = [booting EXCEPT ![b] = i + 1]
          /\ UNCHANGED thread
       \/ /\ ~Alive(i)
          /\ booting' = [booting EXCEPT ![b] = NotBooting]
          /\ Goto(i, "count")
    /\ UNCHANGED <<queue, global, threadCount, pushed, started>>

TestCount(i) ==
    /\ At(i, "count")
    /\ Goto(i, IF i >= threadCount THEN "setCount" ELSE "loop")
    /\ UNCHANGED <<queue, global, threadCount, booting, pushed, started>>

SetCount(i) ==
    /\ At(i, "setCount")
    /\ threadCount' = i + 1
    /\ Goto(i, "loop")
    /\ UNCHANGED <<queue, global, booting, pushed, started>>

-----------------------------------------------------------------------------
(* workerLoop.                                                             *)

TakeFromGlobal(i) ==
    /\ Start(i, Head(global))
    /\ global' = Tail(global)
    /\ UNCHANGED <<queue, threadCount, booting, pushed>>

\* Every 61st round looks at the global queue first.
TakeGlobalFirst(i) ==
    /\ At(i, "loop") /\ global # <<>>
    /\ TakeFromGlobal(i)

TakeOwn(i) ==
    /\ At(i, "loop") /\ queue[i] # <<>>
    /\ Start(i, Last(queue[i]))
    /\ queue' = [queue EXCEPT ![i] = Front(@)]
    /\ UNCHANGED <<global, threadCount, booting, pushed>>

NothingOwn(i) ==
    /\ At(i, "loop") /\ queue[i] = <<>>
    /\ Goto(i, "steal")
    /\ UNCHANGED <<queue, global, threadCount, booting, pushed, started>>

\* Any slot below threadCount but its own may be drawn.
Victims_AllButLast(i) == 0 .. threadCount - 2 \ {i}
Victims(i) == 0 .. threadCount - 1 \ {i}

StealItem(i, v) ==
    /\ At(i, "steal") /\ v \in Victims(i)
    /\ Alive(v) /\ queue[v] # <<>>
    /\ Start(i, Head(queue[v]))
    /\ queue' = [queue EXCEPT ![v] = Tail(@)]
    /\ UNCHANGED <<global, threadCount, booting, pushed>>

StealNothing(i, v) ==
    /\ At(i, "steal") /\ v \in Victims(i)
    /\ ~Alive(v) \/ queue[v] = <<>>
    /\ Goto(i, "global")
    /\ UNCHANGED <<queue, global, threadCount, booting, pushed, started>>

TakeGlobalLast(i) ==
    /\ At(i, "global")
    /\ \/ /\ global # <<>>
          /\ TakeFromGlobal(i)
       \/ /\ global = <<>>
          /\ Goto(i, "loop")
          /\ UNCHANGED <<queue, global, threadCount, booting, pushed, started>>

-----------------------------------------------------------------------------
(* workerRun: the body pushes its items to the own queue and ends.         *)

PushItem(i) ==
    LET item == Head(thread[i].left)
    IN  /\ At(i, "run") /\ thread[i].left # <<>>
        /\ queue' = [queue EXCEPT ![i] = Append(@, item)]
        /\ thread' = [thread EXCEPT ![i].left = Tail(@)]
        /\ pushed' = pushed \cup {item}
        /\ UNCHANGED <<global, threadCount, booting, started>>

EndBody(i) ==
    /\ At(i, "run") /\ thread[i].left = <<>>
    /\ Goto(i, IF Ends[thread[i].item] \in {"waits", "never"} THEN "blocked" ELSE "after")
    /\ UNCHANGED <<queue, global, threadCount, booting, pushed, started>>

\* The I/O a body has waited for is there.
Unblock(i) ==
    /\ At(i, "blocked") /\ Ends[thread[i].item] = "waits"
    /\ Goto(i, "after")
    /\ UNCHANGED <<queue, global, threadCount, booting, pushed, started>>

\* SIGUSR1 arrives while the body runs, which is cut off, or only when it has
\* ended and the loop looks for signals; either way the thread exits.
KillBody(i) ==
    /\ At(i, "run") \/ (At(i, "after") /\ ~thread[i].wasObservedAsBlocked)
    /\ Ends[thread[i].item] = "killable"
    /\ Goto(i, "exit")
    /\ UNCHANGED <<queue, global, threadCount, booting, pushed, started>>

\* The item is done; a thread that sysmon saw waiting makes room.
AfterItem(i) ==
    LET deactivates == thread[i].wasObservedAsBlocked
    IN  /\ At(i, "after")
        /\ thread' = [thread EXCEPT ![i].item = NoItem,
                                    ![i].wasObservedAsBlocked = FALSE,
                                    ![i].at = IF deactivates THEN "donate" ELSE "loop"]
        /\ UNCHANGED <<queue, global, threadCount, booting, pushed, started>>

\* One item moves from the end of the own queue to the global one.
DonateOne_OtherEnd(i) ==
    /\ queue[i] # <<>>
    /\ global' = Append(global, Last(queue[i]))
    /\ queue' = [queue EXCEPT ![i] = Tail(@)]
    /\ UNCHANGED <<thread, threadCount, booting, pushed, started>>
DonateOne(i) ==
    /\ queue[i] # <<>>
    /\ global' = Append(global, Last(queue[i]))
    /\ queue' = [queue EXCEPT ![i] = Front(@)]
    /\ UNCHANGED <<thread, threadCount, booting, pushed, started>>

Deactivate(i) ==
    /\ At(i, "donate")
    /\ \/ DonateOne(i)
       \/ /\ queue[i] = <<>>
          /\ thread' = [thread EXCEPT ![i].isDeactivated = TRUE, ![i].at = "asleep"]
          /\ UNCHANGED <<queue, global, threadCount, booting, pushed, started>>

\* sem_wait returns, and then the flag is cleared.
Wake_NoWait(i) ==
    /\ \/ /\ At(i, "asleep")
          /\ thread' = [thread EXCEPT ![i].reactivate = @ - 1, ![i].at = "awake"]
       \/ /\ At(i, "awake")
          /\ thread' = [thread EXCEPT ![i].isDeactivated = FALSE, ![i].at = "loop"]
    /\ UNCHANGED <<queue, global, threadCount, booting, pushed, started>>
Wake(i) ==
    /\ \/ /\ At(i, "asleep") /\ thread[i].reactivate > 0
          /\ thread' = [thread EXCEPT ![i].reactivate = @ - 1, ![i].at = "awake"]
       \/ /\ At(i, "awake")
          /\ thread' = [thread EXCEPT ![i].isDeactivated = FALSE, ![i].at = "loop"]
    /\ UNCHANGED <<queue, global, threadCount, booting, pushed, started>>

\* workerExit: the slot and its queue stay for the next thread.
Exit_NoDonation(i) ==
    /\ At(i, "exit")
    /\ thread' = [thread EXCEPT ![i].at = "none", ![i].item = NoItem, ![i].left = <<>>]
    /\ UNCHANGED <<queue, global, threadCount, booting, pushed, started>>
Exit(i) ==
    /\ At(i, "exit")
    /\ \/ DonateOne(i)
       \/ /\ queue[i] = <<>>
          /\ thread' = [thread EXCEPT ![i].at = "none", ![i].item = NoItem,
                                      ![i].left = <<>>]
          /\ UNCHANGED <<queue, global, threadCount, booting, pushed, started>>

-----------------------------------------------------------------------------
(* sysmon: look at every thread that is not deactivated, and add one that  *)
(* can run when too few can.                                               *)

Observed == {i \in Slots : Alive(i) /\ ~thread[i].isDeactivated}

\* A thread in a body may or may not be found waiting; one in the loop spins.
Waiting == {i \in Observed : At(i, "blocked")}
MayWait == {i \in Observed : At(i, "run")}

Living == Cardinality({i \in Slots : Alive(i)})

Deactivated == {i \in Slots : Alive(i) /\ thread[i].isDeactivated}

\* pthread_create, whatever threads still look for a slot.  A bound on time:
\* sysmon's ticks are so far apart that no more than MaxBooting do at once.
Spawn ==
    \E b \in Boots : /\ booting[b] = NotBooting
                     /\ booting' = [booting EXCEPT ![b] = 0]

\* workerReactivateOrSpawn, on the thread blocks as sysmon has left them.
ReactivateOrSpawn_OneMore(seen) ==
    LET first == CHOOSE i \in Deactivated : \A j \in Deactivated : i <= j
    IN  IF Deactivated # {}
        THEN /\ thread' = IF seen[first].reactivate < MaxPosts
                          THEN [seen EXCEPT ![first].reactivate = @ + 1] ELSE seen
             /\ UNCHANGED booting
        ELSE /\ thread' = seen
             /\ IF Living <= Target + Extra + 1 THEN Spawn ELSE UNCHANGED booting
ReactivateOrSpawn(seen) ==
    LET first == CHOOSE i \in Deactivated : \A j \in Deactivated : i <= j
    IN  IF Deactivated # {}
        THEN /\ thread' = IF seen[first].reactivate < MaxPosts
                          THEN [seen EXCEPT ![first].reactivate = @ + 1] ELSE seen
             /\ UNCHANGED booting
        ELSE /\ thread' = seen
             /\ IF Living <= Target + Extra THEN Spawn ELSE UNCHANGED booting

SysmonTick ==
    \E blocked \in {Waiting \cup more : more \in SUBSET MayWait} :
        LET seen == [i \in Slots |->
                       IF i \in Observed
                       THEN [thread[i] EXCEPT !.wasObservedAsBlocked = i \in blocked]
                       ELSE thread[i]]
        IN  /\ IF Cardinality(Observed \ blocked) < Target
               THEN ReactivateOrSpawn(seen)
               ELSE thread' = seen /\ UNCHANGED booting
            /\ UNCHANGED <<queue, global, threadCount, pushed, started>>

-----------------------------------------------------------------------------

Step(i) ==
    \/ TestCount(i) \/ SetCount(i)
    \/ TakeGlobalFirst(i) \/ TakeOwn(i) \/ NothingOwn(i) \/ TakeGlobalLast(i)
    \/ \E v \in Slots : StealItem(i, v) \/ StealNothing(i, v)
    \/ PushItem(i) \/ EndBody(i) \/ Unblock(i) \/ AfterItem(i)
    \/ Deactivate(i) \/ Wake(i) \/ Exit(i)

Next ==
    \/ \E b \in Boots, i \in Slots : TrySlot(b, i)
    \/ \E i \in Slots : Step(i) \/ KillBody(i)
    \/ SysmonTick

\* The operating system runs every thread on, a new one too, and sysmon ticks;
\* as long as thieves draw victims, rand_r draws one with an item some time.
\* Nothing makes a signal arrive.
Fairness ==
    /\ \A i \in Slots : WF_vars(Step(i))
    /\ \A b \in Boots : WF_vars(\E i \in Slots : TrySlot(b, i))
    /\ SF_vars(\E i, v \in Slots : StealItem(i, v))
    /\ WF_vars(SysmonTick)

Spec == Init /\ [][Next]_vars /\ Fairness

-----------------------------------------------------------------------------
(* Properties.                                                             *)

\* All queues, the global one as number -1, and the places in them where item
\* x waits to be run.
Lines == [i \in -1 .. SlotCount - 1 |-> IF i = -1 THEN global ELSE queue[i]]

PlacesOf(x) ==
    UNION {{i} \X {k \in 1 .. Len(Lines[i]) : Lines[i][k] = x} : i \in DOMAIN Lines}

\* Stealing, donating and exiting neither lose an item nor run one twice: a
\* pushed item waits in one place until it is run.
ItemsConserved ==
    \A x \in Items :
        Cardinality(PlacesOf(x)) = IF x \in pushed \ started THEN 1 ELSE 0

\* Nobody steals from a slot without a thread, and the owner of a deactivated
\* one sleeps: neither has items left (the comment in workerExit).
NoneLeftBehind ==
    \A i \in Slots : ~Alive(i) \/ thread[i].isDeactivated => queue[i] = <<>>

\* workerMain always finds a slot.  sysmon's cap counts living threads only, not
\* those that boot, and slots are freed and taken while a thread goes along
\* them; yet no thread comes to the end of threads[].
SlotsSuffice == \A b \in Boots : booting[b] # SlotCount

\* The item waits behind a body that never returns, in a slot that the two
\* steps of a concurrent boot have left beyond threadCount.
OutOfReach(x) ==
    \E i \in Slots : /\ i >= threadCount
                     /\ At(i, "blocked") /\ Ends[thread[i].item] = "never"
                     /\ x \in ToSet(queue[i])

\* A worker that knows of no other one draws itself as victim for ever.
DrawsItself == threadCount = 1 /\ At(0, "steal")

\* Every item that is pushed is run some day, whatever bodies block or are
\* killed and whoever deactivates, unless it is out of reach of all thieves, or
\* the only worker has nothing of its own and never comes out of workerSteal.
EveryItemRuns ==
    <>[](\A x \in pushed : x \in started \/ OutOfReach(x) \/ DrawsItself)
=============================================================================
