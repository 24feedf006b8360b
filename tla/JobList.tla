------------------------------- MODULE JobList -------------------------------
(***************************************************************************)
(* The server's job lists, each an item_container under its own lock.      *)
(* "append" lists (alljobs, array_summary, the recycler) are filled with   *)
(* insert and insert_after; "rank" lists (a queue's qu_jobs) are filled in *)
(* order of queue rank by insert_into_alljobs_by_rank, whose caller holds  *)
(* the queue's mutex, as do removal and qorder's exchange.  Walks over     *)
(* either kind take the container's lock for one item at a time.           *)
(***************************************************************************)
EXTENDS ItemContainer

\* Jobs are named by their number, which is their first rank (++queue_rank).
ASSUME JobsNumbered == Ids \subseteq Nat

VARIABLES
  kind,    \* how this list is used
  con,     \* the container
  order,   \* history: the slots in the order the callers asked for
  rank,    \* JOB_ATR_qrank of every job
  enq,     \* the svr_enquejob that searches a rank list for a job's place
  qord,    \* the req_orderjob that has exchanged two ranks but not the places
  torn,    \* history: ranks and places were seen or left half exchanged
  walk     \* an iterator of next_job

vars == <<kind, con, order, rank, enq, qord, torn, walk>>

NoEnq == [pc |-> "idle", job |-> Null, at |-> 0, after |-> Null]
NoOrd == [job1 |-> Null, job2 |-> Null]
NoWalk == [on |-> FALSE, cur |-> 0, end |-> FALSE, owed |-> {}, hit |-> FALSE]

Present == {i \in Ids : con.map[i] # 0}

\* The place of a slot in the list.
PlaceOf(s) == CHOOSE k \in DOMAIN order : order[k] = s

Init ==
  /\ kind \in {"append", "rank"}
  /\ con = NewContainer
  /\ order = <<>>
  /\ rank = [i \in Ids |-> i]
  /\ enq = NoEnq /\ qord = NoOrd /\ torn = FALSE
  /\ walk = NoWalk

-----------------------------------------------------------------------------
(* The iterators.  owed and hit are history: the jobs that have stayed in their *)
(* place since the walk began and were not returned yet, and whether the slot   *)
(* the walk stood on was taken away.                                            *)

Forget(ids, gone) ==
  walk' = [walk EXCEPT !.owed = @ \ ids, !.hit = @ \/ (walk.on /\ walk.cur \in gone)]

get_iterator ==
  /\ ~walk.on /\ enq.pc # "search"
  /\ walk' = [NoWalk EXCEPT !.on = TRUE, !.cur = con.next[0], !.owed = Present]
  /\ UNCHANGED <<kind, con, order, rank, enq, qord, torn>>

\* next_job: the container is locked for this step only.
next_job ==
  /\ walk.on /\ ~walk.end /\ enq.pc # "search"
  /\ LET item == con.pItem[walk.cur]
     IN walk' = IF walk.cur = 0 \/ item = Null
                THEN [walk EXCEPT !.end = TRUE, !.cur = 0]
                ELSE [walk EXCEPT !.owed = @ \ {item}, !.cur = con.next[walk.cur]]
  /\ UNCHANGED <<kind, con, order, rank, enq, qord, torn>>

EndWalk ==
  /\ walk.end
  /\ walk' = NoWalk
  /\ UNCHANGED <<kind, con, order, rank, enq, qord, torn>>

-----------------------------------------------------------------------------
(* Append lists. *)

\* insert: an id that is there is refused, or its item replaced by one at the end.
insert(i, replace) ==
  /\ kind = "append"
  /\ i \in Present => replace
  /\ LET at == con.map[i]
         c == IF at = 0 THEN con ELSE RemoveThingFromIndex(con, at)
         o == IF at = 0 THEN order ELSE DropAt(order, PlaceOf(at))
         gone == IF at = 0 THEN {} ELSE {at}
     IN /\ \/ /\ con' = InsertThing(c, i)
              /\ order' = PutAt(o, Len(o) + 1, c.next_slot)
           \/ /\ NeedsRoom(c) /\ con' = c /\ order' = o       \* ENOMEM
        /\ Forget(IF at = 0 THEN {} ELSE {i}, gone)
  /\ UNCHANGED <<kind, rank, enq, qord, torn>>

\* insert_after for a job that is in no list yet; nothing happens when prev is gone.
insert_after(prev, i) ==
  /\ kind = "append" /\ i \notin Present /\ prev \in Present
  /\ con' = InsertThingAfter(con, i, con.map[prev])
  /\ order' = PutAt(order, PlaceOf(con.map[prev]) + 1, con.next_slot)
  /\ UNCHANGED <<kind, rank, enq, qord, torn, walk>>

Take(i) ==
  /\ con' = RemoveThingFromIndex(con, con.map[i])
  /\ order' = DropAt(order, PlaceOf(con.map[i]))
  /\ Forget({i}, {con.map[i]})

pop ==
  /\ kind = "append" /\ con.next[0] # 0
  /\ Take(con.pItem[con.next[0]])
  /\ UNCHANGED <<kind, rank, enq, qord, torn>>

\* remove_job, and svr_dequejob for a queue's list: the caller holds the job's
\* lock, and for a rank list the queue's mutex.
remove_job(i) ==
  /\ i \in Present /\ i # qord.job2
  /\ kind = "rank" => enq.pc = "idle"
  /\ Take(i)
  /\ torn' = (torn \/ i = qord.job1)
  /\ UNCHANGED <<kind, rank, enq, qord>>

\* swap_jobs on alljobs.
swap_jobs(i, j) ==
  /\ kind = "append" /\ i # j /\ {i, j} \subseteq Present
  /\ con' = SwapItems(con, i, j)
  /\ Forget({i, j}, {})
  /\ UNCHANGED <<kind, order, rank, enq, qord, torn>>

-----------------------------------------------------------------------------
(* Rank lists. *)

\* Mutant: the search starts from last, which a rank list does not keep.
RankFromLast(i) ==
  /\ kind = "rank" /\ enq.pc = "idle" /\ i \notin Present
  /\ enq' = [pc |-> "search", job |-> i, at |-> con.last, after |-> Null]
  /\ UNCHANGED <<kind, con, order, rank, qord, torn, walk>>

\* insert_into_alljobs_by_rank takes the list's lock and starts at the back; the
\* job is in no queue, svr_enquejob's callers having dequeued it.
insert_into_alljobs_by_rank(i) ==
  /\ kind = "rank" /\ enq.pc = "idle" /\ i \notin Present
  /\ enq' = [pc |-> "search", job |-> i, at |-> con.prev[0], after |-> Null]
  /\ UNCHANGED <<kind, con, order, rank, qord, torn, walk>>

\* Mutant: the iterator is not moved on.
SearchStays ==
  LET cur == con.pItem[enq.at]
      atEnd == enq.at = 0 \/ cur = Null
  IN /\ enq.pc = "search"
     /\ atEnd \/ cur # qord.job2
     /\ enq' = IF atEnd THEN [enq EXCEPT !.pc = "place"]
               ELSE IF rank[enq.job] > rank[cur]
                    THEN [enq EXCEPT !.pc = "place", !.after = cur]
               ELSE enq
     /\ torn' = (torn \/ (~atEnd /\ cur = qord.job1))
     /\ UNCHANGED <<kind, con, order, rank, qord, walk>>

\* One round of its loop: the job met is locked, which waits for a qorder that
\* holds it.
SearchPlace ==
  LET cur == con.pItem[enq.at]
      atEnd == enq.at = 0 \/ cur = Null
  IN /\ enq.pc = "search"
     /\ atEnd \/ cur # qord.job2
     /\ enq' = IF atEnd THEN [enq EXCEPT !.pc = "place"]
               ELSE IF rank[enq.job] > rank[cur]
                    THEN [enq EXCEPT !.pc = "place", !.after = cur]
               ELSE IF cur = enq.job THEN NoEnq                   \* ALREADY_IN_LIST
               ELSE [enq EXCEPT !.at = con.prev[enq.at]]
     /\ torn' = (torn \/ (~atEnd /\ cur = qord.job1))
     /\ UNCHANGED <<kind, con, order, rank, qord, walk>>

\* The job goes in front, or after the one found, unless it has been purged
\* meanwhile or the list cannot grow.
PlaceByRank ==
  /\ enq.pc = "place"
  /\ enq' = NoEnq
  /\ \/ /\ enq.after = Null
        /\ con' = InsertThingBefore(con, enq.job, con.next[0])
        /\ order' = PutAt(order, 1, con.next_slot)
     \/ /\ enq.after \in Present
        /\ con' = InsertThingAfter(con, enq.job, con.map[enq.after])
        /\ order' = PutAt(order, PlaceOf(con.map[enq.after]) + 1, con.next_slot)
     \/ UNCHANGED <<con, order>>
  /\ UNCHANGED <<kind, rank, qord, torn, walk>>

\* req_orderjob on two jobs of one queue locks both and exchanges their ranks.
req_orderjob(i, j) ==
  /\ kind = "rank" /\ qord = NoOrd
  /\ i # j /\ {i, j} \subseteq Present /\ enq.job \notin {i, j}
  /\ rank' = [rank EXCEPT ![i] = rank[j], ![j] = rank[i]]
  /\ qord' = [job1 |-> i, job2 |-> j]
  /\ torn' = (torn \/ enq.pc # "idle")
  /\ UNCHANGED <<kind, con, order, enq, walk>>

\* Once it has the queue's mutex it exchanges their places, if both are still there.
SwapPlaces ==
  /\ qord # NoOrd /\ enq.pc = "idle"
  /\ qord' = NoOrd
  /\ IF {qord.job1, qord.job2} \subseteq Present
     THEN /\ con' = SwapItems(con, qord.job1, qord.job2)
          /\ Forget({qord.job1, qord.job2}, {})
     ELSE UNCHANGED <<con, walk>>
  /\ UNCHANGED <<kind, order, rank, enq, torn>>

Next ==
  \/ get_iterator \/ next_job \/ EndWalk
  \/ \E i \in Ids, replace \in BOOLEAN : insert(i, replace)
  \/ \E i, j \in Ids : insert_after(i, j) \/ swap_jobs(i, j) \/ req_orderjob(i, j)
  \/ pop
  \/ \E i \in Ids : remove_job(i) \/ insert_into_alljobs_by_rank(i)
  \/ SearchPlace \/ PlaceByRank \/ SwapPlaces

Spec == Init /\ [][Next]_vars

\* The enqueue runs in a thread of its own and so does the qorder: each goes on
\* when the locks it waits for are free.
FairSpec == Spec /\ WF_vars(SearchPlace) /\ WF_vars(PlaceByRank) /\ WF_vars(SwapPlaces)

-----------------------------------------------------------------------------
(* Properties. *)

Slots == 0 .. (con.max - 1)

Listed == Items(con, order)

\* The container's fields have their types, the history is a sequence of slots.
TypeOK ==
  /\ kind \in {"append", "rank"}
  /\ con.max \in Nat /\ con.num \in Nat /\ con.next_slot \in 1 .. con.max /\ con.last \in Slots
  /\ con.pItem \in [Slots -> Ids \cup {Null}]
  /\ con.next \in [Slots -> Slots] /\ con.prev \in [Slots -> Slots]
  /\ con.map \in [Ids -> Slots]
  /\ order \in Seq(Slots)
  /\ rank \in [Ids -> Nat]
  /\ enq.pc \in {"idle", "search", "place"} /\ enq.at \in Slots
  /\ {enq.job, enq.after, qord.job1, qord.job2} \subseteq Ids \cup {Null}
  /\ walk.cur \in Slots /\ walk.owed \subseteq Ids

\* The bookkeeping of the slots: next_slot, where the next insertion writes, is free
\* and every slot below it is in use; num counts the used slots, so that the array
\* is doubled before next_slot runs out of it; the index and the slots agree.
\* (container.hpp:595-625, 649-650, 806-810, 981-982)
SlotsAccounted == Accounted(con)

\* The pointers are the list the callers asked for: next leads from the sentinel
\* through every slot of the history in its order and back, prev leads backwards;
\* the two disciplines keep the end in last, or in the sentinel's prev, which the
\* search by rank starts from and unlink_slot repairs only while last is not used.
\* (container.hpp:656-670, 710-718, 757-761, 803-818)
ListIsChained == Chained(con, order, kind)

\* A queue's jobs stand in order of their rank, whatever enqueues, dequeues and
\* qorders did, unless a qorder was seen, or abandoned, between its two halves.
\* (svr_jobfunc.c:321-367, req_movejob.c:335-370)
SortedByRank ==
  kind = "rank" /\ qord = NoOrd /\ ~torn =>
     \A j, k \in 1 .. Len(order) : j < k => rank[Listed[j]] < rank[Listed[k]]

\* A walk of next_job that comes to its end has returned every job that stayed in its
\* place all the while, although the list was unlocked between any two of its steps;
\* only the removal of the very slot it stands on cuts it short.
\* (job_container.c:819-821, container.hpp:1014-1015)
WalkIsComplete == walk.end /\ ~walk.hit => walk.owed = {}

\* The container implements the abstract list.
Abstract == INSTANCE OrderedList WITH list <- Listed, size <- con.num, members <- Present

\* Every call leaves a sequence of distinct ids that differs from the one before in
\* one entry put in, taken out or moved, or in two exchanged, with count() and find()
\* agreeing with it. (container.hpp:239-463)
IsOrderedList == Abstract!Spec

\* The search waits for a job that a qorder holds, which waits for the queue.
Deadlocked == enq.pc = "search" /\ qord # NoOrd /\ con.pItem[enq.at] = qord.job2

\* svr_enquejob comes back from its search, except for that deadlock.
\* (svr_jobfunc.c:321-323, req_movejob.c:365)
EnqueueReturns == enq.pc # "idle" ~> (enq.pc = "idle" \/ Deadlocked)
=============================================================================
