------------------------------ MODULE SyncProofs ------------------------------
(***************************************************************************)
(* Proofs about Sync, for any runs that overlap, chats, limits and faults. *)
(*                                                                         *)
(* Unseen says why a chat gets no second page: a run that will create the  *)
(* page of a chat is right that there is none, unless a rival created one  *)
(* or a request was sent again.  UpToDate is the state that runs converge  *)
(* to, which nothing but a change of D1 ends.                              *)
(***************************************************************************)
EXTENDS Sync, FiniteSetTheorems, WellFoundedInduction, TLAPS

Creates(r, c) == pc[r] = "write" /\ c \in wanted(r) /\ todo[r][c].page = 0

Unseen ==
    \A r \in Runs, c \in Chats : Creates(r, c) /\ c \notin raced => Len(pages[c]) = 0

(* The inductive invariant. *)
IInv == TypeOK /\ OnePagePerChat /\ Unseen

-----------------------------------------------------------------------------
(* Lemmas about the operators                                              *)

(* There are finitely many chats, hence finitely many changes. *)
LEMMA BeforeIsNat == Before \in Nat
BY SyncAssumption, FS_CardinalityType DEF Before

(* A nonempty set of numbers with a bound has its maximum as a member. *)
LEMMA MaxIsMember ==
    ASSUME NEW n \in Nat, NEW S, S \subseteq 0..n, S # {}
    PROVE  Max(S) \in S
<1> DEFINE T == {n - x : x \in S}
<1>1. T \subseteq Nat /\ T # {}
  <2>1. PICK x \in S : TRUE
    OBVIOUS
  <2>2. n - x \in T
    OBVIOUS
  <2>3. \A y \in S : n - y \in Nat
    OBVIOUS
  <2> QED
    BY <2>2, <2>3
<1>2. PICK least \in T : \A t \in T : ~ (<<t, least>> \in OpToRel(<, Nat))
  <2> HIDE DEF T
  <2> QED
    BY <1>1, NatLessThanWellFounded, WFMin
<1>3. PICK x \in S : least = n - x
  OBVIOUS
<1>4. ASSUME NEW y \in S PROVE x >= y
  <2>1. x \in 0..n /\ y \in 0..n
    OBVIOUS
  <2>2. n - y \in T
    OBVIOUS
  <2>3. n - y \in Nat /\ n - x \in Nat
    BY <2>1
  <2>4. ~ (n - y < n - x)
    <3> HIDE DEF T
    <3> QED
      BY <1>2, <1>3, <2>2, <2>3 DEF OpToRel
  <2> QED
    BY <2>1, <2>4
<1> QED
  BY <1>4 DEF Max

(* The latest proposal of a chat is one of its own, or there is none. *)
LEMMA LatestIsOwn ==
    ASSUME NEW c \in Chats, proposals \in Seq(Chats)
    PROVE  /\ latest(c) \in 0..Len(proposals)
           /\ latest(c) # 0 =>
                  latest(c) \in DOMAIN proposals /\ proposals[latest(c)] = c
<1>1. recent(c) \subseteq {i \in 1..Len(proposals) : proposals[i] = c}
  BY DEF recent
<1>2. latest(c) \in {0} \cup recent(c)
  <2>1. {0} \cup recent(c) \subseteq 0..Len(proposals)
    BY <1>1
  <2> QED
    BY <2>1, MaxIsMember DEF latest
<1> QED
  BY <1>1, <1>2

(* No task at all is a task for no page and without summary. *)
LEMMA DoneTypes == 0 \in Changes /\ Done \in Task /\ Done.row.summary = 0 /\ Done.page = 0
<1>1. 0 \in Changes
  BY BeforeIsNat, SyncAssumption DEF Changes
<1> QED
  BY <1>1 DEF Done, NoRow, Task, Row

(* What a run makes of a row of deal_map, alone and with its proposal. *)
LEMMA RowTypes ==
    ASSUME TypeOK, NEW c \in Chats, NEW content \in Changes, NEW upsert \in Changes
    PROVE  /\ [Done EXCEPT !.row.deal = content, !.at = upsert] \in Task
           /\ [Done EXCEPT !.row.deal = content, !.at = upsert].row.summary = 0
           /\ [Done EXCEPT !.row.deal = content, !.at = upsert].page = 0
           /\ projectRow(c, content, upsert) \in Row
           /\ isOwn(c, projectRow(c, content, upsert))
<1>1. 0 \in Changes /\ 0..Len(proposals) \subseteq Changes
  BY BeforeIsNat, SyncAssumption DEF TypeOK, Changes
<1>2. /\ [Done EXCEPT !.row.deal = content, !.at = upsert] \in Task
      /\ [Done EXCEPT !.row.deal = content, !.at = upsert].row.summary = 0
      /\ [Done EXCEPT !.row.deal = content, !.at = upsert].page = 0
  BY <1>1 DEF Done, NoRow, Task, Row
<1>3. /\ latest(c) \in 0..Len(proposals)
      /\ latest(c) # 0 =>
             latest(c) \in DOMAIN proposals /\ proposals[latest(c)] = c
  BY LatestIsOwn DEF TypeOK
<1>4. projectRow(c, content, upsert) \in Row /\ isOwn(c, projectRow(c, content, upsert))
  BY <1>1, <1>3 DEF projectRow, Row, isOwn
<1> QED
  BY <1>2, <1>4

(* Cutting a text leaves the row one of the same chat. *)
LEMMA TruncateTypes ==
    ASSUME NEW c \in Chats, NEW row \in Row, isOwn(c, row)
    PROVE  truncate(row) \in Row /\ isOwn(c, truncate(row))
<1> DEFINE cut == row.summary \in Long
<1>1. cut \in BOOLEAN
  OBVIOUS
<1>2. truncate(row) = [row EXCEPT !.cut = cut]
  BY DEF truncate
<1> HIDE DEF cut
<1> QED
  BY <1>1, <1>2 DEF Row, isOwn

-----------------------------------------------------------------------------
(* Types                                                                   *)

(* No page, no proposal, no run. *)
LEMMA InitTypes == Init => TypeOK
<1> SUFFICES ASSUME Init PROVE TypeOK
  OBVIOUS
<1>1. /\ deal \in [Chats -> Changes] /\ updatedAt \in [Chats -> Changes]
      /\ clock \in Changes /\ Len(proposals) <= clock /\ proposals \in Seq(Chats)
  BY BeforeIsNat, SyncAssumption DEF Init, Changes
<1>2. /\ pages \in [Chats -> Seq(Row)]
      /\ \A c \in Chats : Len(pages[c]) = 0 /\ DOMAIN pages[c] = {}
  BY DEF Init
<1>3. Done \in Task /\ Done.row.summary = 0 /\ Done.page = 0
  BY DoneTypes
<1>4. /\ todo \in [Runs -> [Chats -> Task]]
      /\ \A r \in Runs, c \in Chats : todo[r][c] = Done
  BY <1>3 DEF Init, NoTasks
<1>5. /\ pc \in [Runs -> Points] /\ wrote \in [Runs -> BOOLEAN]
      /\ raced \subseteq Chats /\ faults \in 0..MaxFaults
  BY SyncAssumption DEF Init, Points
<1> QED
  BY <1>1, <1>2, <1>3, <1>4, <1>5 DEF TypeOK, isOwn

(* What the steps of a run change: its tasks, or the pages of one chat. *)
LEMMA TasksType ==
    ASSUME TypeOK, NEW r \in Runs, NEW tasks \in [Chats -> Task],
           todo' = [todo EXCEPT ![r] = tasks],
           \A c \in Chats : tasks[c].page <= Len(pages[c]) /\ isOwn(c, tasks[c].row),
           UNCHANGED <<d1, pages>>
    PROVE  /\ todo' \in [Runs -> [Chats -> Task]]
           /\ \A q \in Runs, c \in Chats :
                  todo'[q][c].page <= Len(pages'[c]) /\ isOwn(c, todo[q][c].row)'
           /\ \A c \in Chats : \A i \in DOMAIN pages'[c] : isOwn(c, pages[c][i])'
<1>1. todo' \in [Runs -> [Chats -> Task]]
  BY DEF TypeOK
<1>2. \A q \in Runs, c \in Chats :
          todo'[q][c].page <= Len(pages[c]) /\ isOwn(c, todo'[q][c].row)
  BY DEF TypeOK
<1>3. \A c \in Chats : \A i \in DOMAIN pages[c] : isOwn(c, pages[c][i])
  BY DEF TypeOK
<1> QED
  BY <1>1, <1>2, <1>3 DEF isOwn, d1

(* A run that lists its rows holds tasks for no page and without summary. *)
LEMMA ListDealsTypes == ASSUME TypeOK, NEW r \in Runs, ListDeals(r) PROVE TypeOK'
<1> DEFINE tasks == [c \in Chats |-> [Done EXCEPT !.row.deal = deal[c], !.at = updatedAt[c]]]
<1>1. \A c \in Chats : tasks[c] \in Task /\ tasks[c].row.summary = 0 /\ tasks[c].page = 0
  BY RowTypes DEF TypeOK
<1>2. todo' = [todo EXCEPT ![r] = tasks] /\ UNCHANGED <<d1, pages>>
  BY DEF ListDeals
<1> HIDE DEF tasks
<1>3. tasks \in [Chats -> Task]
  BY <1>1 DEF tasks
<1>4. \A c \in Chats : tasks[c].page <= Len(pages[c]) /\ isOwn(c, tasks[c].row)
  BY <1>1 DEF isOwn, TypeOK
<1>5. pc' \in [Runs -> Points]
  BY DEF ListDeals, goto, TypeOK, Points
<1> QED
  BY <1>2, <1>3, <1>4, <1>5, TasksType DEF TypeOK, ListDeals, d1

(* A row that is projected gets a summary of its own chat. *)
LEMMA ListProposalsTypes == ASSUME TypeOK, NEW r \in Runs, ListProposals(r) PROVE TypeOK'
<1> DEFINE rows == newest(wanted(r), [c \in Chats |-> todo[r][c].at])
           tasks == [c \in Chats |->
               IF c \in rows
               THEN [todo[r][c] EXCEPT
                         !.row = projectRow(c, todo[r][c].row.deal, todo[r][c].at)]
               ELSE Done]
<1>1. todo' = [todo EXCEPT ![r] = tasks] /\ UNCHANGED <<d1, pages>>
  BY DEF ListProposals, TypeOK
<1> HIDE DEF rows
<1>2. ASSUME NEW c \in Chats
      PROVE  tasks[c] \in Task /\ tasks[c].page <= Len(pages[c]) /\ isOwn(c, tasks[c].row)
  <2>1. /\ todo[r][c] \in Task /\ todo[r][c].page <= Len(pages[c])
        /\ Len(pages[c]) \in Nat
    BY DEF TypeOK
  <2>2. /\ todo[r][c].row.deal \in Changes /\ todo[r][c].at \in Changes
    BY <2>1 DEF Task, Row
  <2> DEFINE row == projectRow(c, todo[r][c].row.deal, todo[r][c].at)
  <2>3. row \in Row /\ isOwn(c, row)
    BY <2>2, RowTypes
  <2>4. Done \in Task /\ Done.row.summary = 0 /\ Done.page = 0
    BY DoneTypes
  <2>5. CASE c \in rows
    <3>1. tasks[c] = [todo[r][c] EXCEPT !.row = row]
      BY <2>5
    <3> HIDE DEF row, tasks
    <3> QED
      BY <2>1, <2>3, <3>1 DEF Task
  <2>6. CASE c \notin rows
    BY <2>1, <2>4, <2>6 DEF isOwn
  <2> QED
    BY <2>5, <2>6
<1>3. tasks \in [Chats -> Task]
  BY <1>2
<1>4. pc' \in [Runs -> Points]
  BY DEF ListProposals, goto, TypeOK, Points
<1> HIDE DEF tasks
<1> QED
  BY <1>1, <1>2, <1>3, <1>4, TasksType DEF TypeOK, ListProposals, d1

(* The page a task is given is there. *)
LEMMA QueryTypes == ASSUME TypeOK, NEW r \in Runs, Query(r) PROVE TypeOK'
<1>1. PICK page \in [Chats -> {0} \cup {p[2] : p \in queryDatabaseAll}] :
          /\ \A c \in Chats : IF \E p \in queryDatabaseAll : p[1] = c
                             THEN <<c, page[c]>> \in queryDatabaseAll ELSE page[c] = 0
          /\ todo' = [todo EXCEPT ![r] = [c \in Chats |->
                 IF \/ c \notin wanted(r)
                    \/ page[c] # 0 /\ pageMatches(pages[c][page[c]], todo[r][c].row)
                 THEN Done ELSE [@[c] EXCEPT !.page = page[c]]]]
  BY DEF Query
<1> DEFINE skip(c) == \/ c \notin wanted(r)
                      \/ page[c] # 0 /\ pageMatches(pages[c][page[c]], todo[r][c].row)
           tasks == [c \in Chats |->
               IF skip(c) THEN Done ELSE [todo[r][c] EXCEPT !.page = page[c]]]
<1>2. todo' = [todo EXCEPT ![r] = tasks] /\ UNCHANGED <<d1, pages>>
  BY <1>1 DEF Query, TypeOK
<1> HIDE DEF skip
<1>3. ASSUME NEW c \in Chats
      PROVE  tasks[c] \in Task /\ tasks[c].page <= Len(pages[c]) /\ isOwn(c, tasks[c].row)
  <2>1. /\ todo[r][c] \in Task /\ isOwn(c, todo[r][c].row)
        /\ Len(pages[c]) \in Nat /\ DOMAIN pages[c] = 1..Len(pages[c])
    BY DEF TypeOK
  <2>2. Done \in Task /\ Done.row.summary = 0 /\ Done.page = 0
    BY DoneTypes
  <2>3. page[c] \in 0..Len(pages[c])
    <3>1. CASE \E p \in queryDatabaseAll : p[1] = c
      <4>1. <<c, page[c]>> \in queryDatabaseAll
        BY <1>1, <3>1
      <4> QED
        BY <2>1, <4>1 DEF queryDatabaseAll, allPages
    <3>2. CASE ~ \E p \in queryDatabaseAll : p[1] = c
      <4>1. page[c] = 0
        BY <1>1, <3>2
      <4> QED
        BY <2>1, <4>1
    <3> QED
      BY <3>1, <3>2
  <2>4. CASE skip(c)
    BY <2>1, <2>2, <2>4 DEF isOwn
  <2>5. CASE ~ skip(c)
    <3>1. tasks[c] = [todo[r][c] EXCEPT !.page = page[c]]
      BY <2>5
    <3> HIDE DEF tasks
    <3> QED
      BY <2>1, <2>3, <3>1 DEF Task
  <2> QED
    BY <2>4, <2>5
<1>4. tasks \in [Chats -> Task]
  BY <1>3
<1>5. pc' \in [Runs -> Points]
  BY DEF Query, goto, TypeOK, Points
<1> HIDE DEF tasks
<1> QED
  BY <1>2, <1>3, <1>4, <1>5, TasksType DEF TypeOK, Query, d1

(* A request that takes effect adds one page to a chat that had none for   *)
(* the run, or replaces a page.                                            *)
LEMMA RequestPages ==
    ASSUME TypeOK, NEW r \in Runs, NEW c \in Chats, createPage(r, c) \/ updatePage(r, c)
    PROVE  /\ pages' \in [Chats -> Seq(Row)]
           /\ \A d \in Chats : \A i \in DOMAIN pages'[d] : isOwn(d, pages'[d][i])
           /\ \A d \in Chats \ {c} : pages'[d] = pages[d]
           /\ Len(pages'[c]) = Len(pages[c]) + IF todo[r][c].page = 0 THEN 1 ELSE 0
           /\ \A d \in Chats : Len(pages'[d]) \in Nat /\ Len(pages[d]) <= Len(pages'[d])
<1> DEFINE row == truncate(todo[r][c].row)
<1>1. row \in Row /\ isOwn(c, row)
  BY TruncateTypes DEF TypeOK, Task
<1>2. pages[c] \in Seq(Row) /\ Len(pages[c]) \in Nat
  BY DEF TypeOK
<1> HIDE DEF row
<1>3. CASE createPage(r, c)
  <2>1. pages' = [pages EXCEPT ![c] = Append(pages[c], row)] /\ todo[r][c].page = 0
    BY <1>3 DEF createPage, row
  <2>2. /\ Append(pages[c], row) \in Seq(Row)
        /\ Len(Append(pages[c], row)) = Len(pages[c]) + 1
        /\ \A i \in 1..Len(pages[c]) : Append(pages[c], row)[i] = pages[c][i]
        /\ Append(pages[c], row)[Len(pages[c]) + 1] = row
    BY <1>1, <1>2
  <2>3. \A i \in DOMAIN Append(pages[c], row) : isOwn(c, Append(pages[c], row)[i])
    <3>1. DOMAIN Append(pages[c], row) = 1..(Len(pages[c]) + 1)
      BY <1>2, <2>2
    <3>2. \A i \in 1..Len(pages[c]) : isOwn(c, pages[c][i])
      BY <1>2 DEF TypeOK
    <3> QED
      BY <1>1, <1>2, <2>2, <3>1, <3>2
  <2> QED
    BY <2>1, <2>2, <2>3 DEF TypeOK
<1>4. CASE updatePage(r, c)
  <2> DEFINE k == todo[r][c].page
  <2>1. pages' = [pages EXCEPT ![c] = [pages[c] EXCEPT ![k] = row]] /\ k # 0
    BY <1>4 DEF updatePage, row
  <2>2. k \in 1..Len(pages[c])
    BY <1>2, <2>1 DEF TypeOK, Task
  <2> HIDE DEF k
  <2>3. /\ [pages[c] EXCEPT ![k] = row] \in Seq(Row)
        /\ Len([pages[c] EXCEPT ![k] = row]) = Len(pages[c])
        /\ DOMAIN [pages[c] EXCEPT ![k] = row] = DOMAIN pages[c]
    BY <1>1, <1>2, <2>2
  <2>4. \A i \in DOMAIN pages[c] : isOwn(c, [pages[c] EXCEPT ![k] = row][i])
    <3>1. \A i \in DOMAIN pages[c] : isOwn(c, pages[c][i])
      BY DEF TypeOK
    <3>2. \A i \in DOMAIN pages[c] :
              [pages[c] EXCEPT ![k] = row][i] = IF i = k THEN row ELSE pages[c][i]
      OBVIOUS
    <3> QED
      BY <1>1, <3>1, <3>2
  <2>5. todo[r][c].page # 0
    BY <2>1 DEF k
  <2> QED
    BY <1>2, <2>1, <2>3, <2>4, <2>5 DEF TypeOK
<1>5. /\ \A d \in Chats \ {c} : pages'[d] = pages[d]
      /\ Len(pages'[c]) = Len(pages[c]) + IF todo[r][c].page = 0 THEN 1 ELSE 0
  BY <1>3, <1>4
<1>6. ASSUME NEW d \in Chats PROVE Len(pages'[d]) \in Nat /\ Len(pages[d]) <= Len(pages'[d])
  <2>1. Len(pages[d]) \in Nat
    BY DEF TypeOK
  <2>2. CASE d = c
    <3>1. CASE todo[r][c].page = 0
      BY <1>5, <2>1, <2>2, <3>1
    <3>2. CASE todo[r][c].page # 0
      BY <1>5, <2>1, <2>2, <3>2
    <3> QED
      BY <3>1, <3>2
  <2>3. CASE d # c
    BY <1>5, <2>1, <2>3
  <2> QED
    BY <2>2, <2>3
<1> QED
  BY <1>3, <1>4, <1>5, <1>6

(* A row that was written is dropped from the run's tasks. *)
LEMMA WriteTypes == ASSUME TypeOK, NEW r \in Runs, NEW c \in Chats, Write(r, c) PROVE TypeOK'
<1>1. createPage(r, c) \/ updatePage(r, c)
  BY DEF Write
<1>2. /\ pages' \in [Chats -> Seq(Row)]
      /\ \A d \in Chats : \A i \in DOMAIN pages'[d] : isOwn(d, pages'[d][i])
      /\ \A d \in Chats : Len(pages'[d]) \in Nat /\ Len(pages[d]) <= Len(pages'[d])
  BY <1>1, RequestPages
<1>3. todo' = [todo EXCEPT ![r][c] = Done] /\ UNCHANGED proposals
  BY DEF Write, d1
<1>4. Done \in Task /\ Done.row.summary = 0 /\ Done.page = 0
  BY DoneTypes
<1>5. /\ todo' \in [Runs -> [Chats -> Task]]
      /\ \A q \in Runs, d \in Chats : todo'[q][d] = Done \/ todo'[q][d] = todo[q][d]
  BY <1>3, <1>4 DEF TypeOK
<1>6. \A q \in Runs, d \in Chats :
          todo'[q][d].page <= Len(pages'[d]) /\ isOwn(d, todo'[q][d].row)
  <2> SUFFICES ASSUME NEW q \in Runs, NEW d \in Chats
               PROVE  todo'[q][d].page <= Len(pages'[d]) /\ isOwn(d, todo'[q][d].row)
    OBVIOUS
  <2>1. /\ todo[q][d].page <= Len(pages[d]) /\ isOwn(d, todo[q][d].row)
        /\ todo[q][d].page \in Nat /\ Len(pages[d]) \in Nat
    BY DEF TypeOK, Task
  <2>2. isOwn(d, Done.row)
    BY <1>4 DEF isOwn
  <2>3. Len(pages'[d]) \in Nat /\ Len(pages[d]) <= Len(pages'[d])
    BY <1>2
  <2>4. CASE todo'[q][d] = Done
    BY <1>4, <2>2, <2>3, <2>4
  <2>5. CASE todo'[q][d] = todo[q][d]
    BY <2>1, <2>3, <2>5
  <2> QED
    BY <1>5, <2>4, <2>5
<1>7. raced' \subseteq Chats /\ wrote' \in [Runs -> BOOLEAN]
  BY DEF Write, TypeOK
<1> QED
  BY <1>2, <1>3, <1>5, <1>6, <1>7 DEF TypeOK, Write, d1, isOwn

(* A request that is sent again changes pages only. *)
LEMMA WriteRepeatedTypes ==
    ASSUME TypeOK, NEW r \in Runs, NEW c \in Chats, WriteRepeated(r, c) PROVE TypeOK'
<1>1. createPage(r, c) \/ updatePage(r, c)
  BY DEF WriteRepeated
<1>2. /\ pages' \in [Chats -> Seq(Row)]
      /\ \A d \in Chats : \A i \in DOMAIN pages'[d] : isOwn(d, pages'[d][i])
      /\ \A d \in Chats : Len(pages'[d]) \in Nat /\ Len(pages[d]) <= Len(pages'[d])
  BY <1>1, RequestPages
<1>3. \A q \in Runs, d \in Chats : todo[q][d].page <= Len(pages'[d])
  <2>1. \A q \in Runs, d \in Chats :
            /\ todo[q][d].page <= Len(pages[d])
            /\ todo[q][d].page \in Nat /\ Len(pages[d]) \in Nat
    BY DEF TypeOK, Task
  <2> QED
    BY <1>2, <2>1
<1>4. raced' \subseteq Chats /\ faults' \in 0..MaxFaults
  BY SyncAssumption DEF WriteRepeated, TypeOK, fault
<1> QED
  BY <1>2, <1>3, <1>4 DEF TypeOK, WriteRepeated, d1, run, isOwn

(* A run that ends leaves no task behind. *)
LEMMA EndTypes == ASSUME TypeOK, NEW r \in Runs, EndRun(r) \/ Fail(r) PROVE TypeOK'
<1>1. Done \in Task /\ Done.row.summary = 0 /\ Done.page = 0
  BY DoneTypes
<1>2. /\ NoTasks \in [Chats -> Task]
      /\ \A c \in Chats : NoTasks[c].page <= Len(pages[c]) /\ isOwn(c, NoTasks[c].row)
  BY <1>1 DEF NoTasks, isOwn, TypeOK
<1>3. todo' = [todo EXCEPT ![r] = NoTasks] /\ UNCHANGED <<d1, pages, raced>>
  BY DEF EndRun, Fail, end
<1>4. pc' \in [Runs -> Points] /\ wrote' \in [Runs -> BOOLEAN]
  BY DEF EndRun, Fail, end, goto, TypeOK, Points
<1>5. faults' \in 0..MaxFaults
  BY SyncAssumption DEF EndRun, Fail, fault, TypeOK
<1> QED
  BY <1>2, <1>3, <1>4, <1>5, TasksType DEF TypeOK, d1

(* D1 only grows, so a summary that is shown keeps its proposal. *)
LEMMA D1Types == ASSUME TypeOK, NEW c \in Chats, Match(c) \/ Propose(c) PROVE TypeOK'
<1>1. clock' = clock + 1 /\ clock' \in Changes /\ clock \in Nat
  BY BeforeIsNat, SyncAssumption DEF Match, Propose, change, TypeOK, Changes
<1>2. CASE Match(c)
  <2>1. deal' \in [Chats -> Changes] /\ updatedAt' \in [Chats -> Changes]
    BY <1>1, <1>2 DEF Match, TypeOK
  <2> QED
    BY <1>1, <1>2, <2>1 DEF Match, TypeOK, run, isOwn
<1>3. CASE Propose(c)
  <2>1. /\ proposals' \in Seq(Chats) /\ Len(proposals') = Len(proposals) + 1
        /\ Len(proposals) \in Nat /\ DOMAIN proposals \subseteq DOMAIN proposals'
        /\ \A i \in DOMAIN proposals : proposals'[i] = proposals[i]
    BY <1>3 DEF Propose, TypeOK
  <2>2. \A d \in Chats, row \in Row : isOwn(d, row) => isOwn(d, row)'
    BY <2>1 DEF isOwn
  <2>3. \A d \in Chats : \A i \in DOMAIN pages[d] : pages[d][i] \in Row
    BY DEF TypeOK
  <2>4. \A q \in Runs, d \in Chats : todo[q][d].row \in Row
    BY DEF TypeOK, Task
  <2>5. UNCHANGED <<deal, updatedAt, pages, pc, todo, wrote, raced, faults>>
    BY <1>3 DEF Propose, run
  <2>6. \A d \in Chats : \A i \in DOMAIN pages'[d] : isOwn(d, pages[d][i])'
    BY <2>2, <2>3, <2>5 DEF TypeOK
  <2>7. \A q \in Runs, d \in Chats : isOwn(d, todo[q][d].row)'
    BY <2>2, <2>4, <2>5 DEF TypeOK
  <2>8. Len(proposals') <= clock'
    BY <1>1, <2>1 DEF TypeOK
  <2> QED
    BY <1>1, <2>1, <2>5, <2>6, <2>7, <2>8 DEF TypeOK
<1> QED
  BY <1>2, <1>3

(* Every step keeps the types. *)
LEMMA NextTypes == ASSUME TypeOK, [Next]_vars PROVE TypeOK'
<1>1. ASSUME NEW r \in Runs, Step(r) \/ Fail(r) \/ \E c \in Chats : WriteRepeated(r, c)
      PROVE  TypeOK'
  BY <1>1, ListDealsTypes, ListProposalsTypes, QueryTypes, WriteTypes, EndTypes,
     WriteRepeatedTypes DEF Step
<1>2. ASSUME NEW c \in Chats, Match(c) \/ Propose(c) PROVE TypeOK'
  BY <1>2, D1Types
<1>3. CASE UNCHANGED vars
  BY <1>3 DEF TypeOK, isOwn, vars, d1, run
<1> QED
  BY <1>1, <1>2, <1>3 DEF Next

-----------------------------------------------------------------------------
(* One page per chat                                                       *)

(* A request that creates the second page of a chat, or one that another   *)
(* run will create again, marks the chat as raced.                         *)
LEMMA RequestUnseen ==
    ASSUME TypeOK, OnePagePerChat, Unseen, NEW r \in Runs, NEW c \in Chats,
           Write(r, c) \/ WriteRepeated(r, c)
    PROVE  OnePagePerChat' /\ Unseen'
<1>1. createPage(r, c) \/ updatePage(r, c)
  BY DEF Write, WriteRepeated
<1>2. /\ \A d \in Chats \ {c} : pages'[d] = pages[d]
      /\ Len(pages'[c]) = Len(pages[c]) + IF todo[r][c].page = 0 THEN 1 ELSE 0
      /\ Len(pages[c]) \in Nat
  BY <1>1, RequestPages DEF TypeOK
<1>3. raced \subseteq raced' /\ pc' = pc
  BY DEF Write, WriteRepeated, run
<1>4. \A q \in Runs, d \in Chats : Creates(q, d)' => Creates(q, d)
  <2>1. \A q \in Runs, d \in Chats : todo'[q][d] = Done \/ todo'[q][d] = todo[q][d]
    <3>1. CASE Write(r, c)
      <4>1. todo' = [todo EXCEPT ![r][c] = Done]
        BY <3>1 DEF Write
      <4> QED
        BY <4>1 DEF TypeOK
    <3>2. CASE WriteRepeated(r, c)
      BY <3>2 DEF WriteRepeated, run
    <3> QED
      BY <3>1, <3>2
  <2>2. Done.row = NoRow
    BY DEF Done
  <2> QED
    BY <1>3, <2>1, <2>2 DEF Creates, wanted
<1>5. CASE todo[r][c].page = 0
  <2>1. createPage(r, c) /\ ~ updatePage(r, c) /\ Creates(r, c)
    BY <1>1, <1>5 DEF createPage, updatePage, isNext, Creates
  <2>2. c \notin raced' => Len(pages[c]) = 0
    BY <1>3, <2>1 DEF Unseen
  <2>3. ASSUME c \notin raced', NEW q \in Runs, Creates(q, c)' PROVE FALSE
    <3>1. Write(r, c) /\ rivals(r, c) = {}
      BY <2>1, <2>3 DEF Write, WriteRepeated
    <3>2. todo'[r][c] = Done
      BY <3>1 DEF Write, TypeOK
    <3>3. q # r
      BY <2>3, <3>2 DEF Creates, wanted, Done
    <3> QED
      BY <1>4, <2>3, <3>1, <3>3 DEF rivals, Creates
  <2> QED
    BY <1>2, <1>3, <1>4, <1>5, <2>2, <2>3 DEF OnePagePerChat, Unseen
<1>6. CASE todo[r][c].page # 0
  <2>1. \A d \in Chats : Len(pages'[d]) = Len(pages[d])
    BY <1>2, <1>6
  <2> QED
    BY <1>3, <1>4, <2>1 DEF OnePagePerChat, Unseen
<1> QED
  BY <1>5, <1>6

(* A run that queries learns of every page, and others are not disturbed. *)
LEMMA QueryUnseen ==
    ASSUME TypeOK, OnePagePerChat, Unseen, NEW r \in Runs, Query(r)
    PROVE  OnePagePerChat' /\ Unseen'
<1>1. UNCHANGED <<pages, raced>>
  BY DEF Query
<1>2. \A q \in Runs \ {r}, c \in Chats : Creates(q, c)' => Creates(q, c)
  BY DEF Query, goto, Creates, wanted, TypeOK
<1>3. ASSUME NEW c \in Chats, Creates(r, c)' PROVE Len(pages[c]) = 0
  <2>1. PICK page \in [Chats -> {0} \cup {p[2] : p \in queryDatabaseAll}] :
            /\ \A d \in Chats : IF \E p \in queryDatabaseAll : p[1] = d
                               THEN <<d, page[d]>> \in queryDatabaseAll ELSE page[d] = 0
            /\ todo' = [todo EXCEPT ![r] = [d \in Chats |->
                   IF \/ d \notin wanted(r)
                      \/ page[d] # 0 /\ pageMatches(pages[d][page[d]], todo[r][d].row)
                   THEN Done ELSE [@[d] EXCEPT !.page = page[d]]]]
    BY DEF Query
  <2>2. todo'[r][c] # Done
    BY <1>3 DEF Creates, wanted, Done
  <2>3. todo'[r][c] = [todo[r][c] EXCEPT !.page = page[c]]
    BY <2>1, <2>2 DEF TypeOK
  <2>4. page[c] = 0
    BY <1>3, <2>3 DEF Creates, TypeOK, Task
  <2>5. pages[c] \in Seq(Row) /\ DOMAIN pages[c] = 1..Len(pages[c]) /\ Len(pages[c]) \in Nat
    BY DEF TypeOK
  <2>6. ASSUME Len(pages[c]) # 0 PROVE FALSE
    <3>1. <<c, 1>> \in queryDatabaseAll
      BY <2>5, <2>6 DEF queryDatabaseAll, allPages
    <3>2. <<c, page[c]>> \in queryDatabaseAll
      BY <2>1, <3>1
    <3>3. page[c] \in 1..Len(pages[c])
      BY <2>5, <3>2 DEF queryDatabaseAll, allPages
    <3> QED
      BY <2>4, <3>3
  <2> QED
    BY <2>6
<1> QED
  BY <1>1, <1>2, <1>3 DEF OnePagePerChat, Unseen

(* Every other step leaves the pages alone and no run begins to create one. *)
LEMMA OtherUnseen ==
    ASSUME TypeOK, OnePagePerChat, Unseen,
           \/ \E r \in Runs : ListDeals(r) \/ ListProposals(r) \/ EndRun(r) \/ Fail(r)
           \/ \E c \in Chats : Match(c) \/ Propose(c)
           \/ UNCHANGED vars
    PROVE  OnePagePerChat' /\ Unseen'
<1>1. UNCHANGED <<pages, raced>>
  BY DEF ListDeals, ListProposals, EndRun, Fail, Match, Propose, vars
<1>2. \A q \in Runs, c \in Chats : Creates(q, c)' => Creates(q, c)
  <2>1. ASSUME NEW r \in Runs, ListDeals(r) \/ ListProposals(r) \/ EndRun(r) \/ Fail(r)
        PROVE  \A q \in Runs, c \in Chats : Creates(q, c)' => Creates(q, c)
    <3>1. /\ pc'[r] # "write" /\ \A q \in Runs \ {r} : pc'[q] = pc[q]
          /\ \A q \in Runs \ {r} : todo'[q] = todo[q]
      BY <2>1 DEF ListDeals, ListProposals, EndRun, Fail, end, goto, TypeOK
    <3> QED
      BY <3>1 DEF Creates, wanted
  <2>2. ASSUME \/ \E c \in Chats : Match(c) \/ Propose(c)
               \/ UNCHANGED vars
        PROVE  UNCHANGED <<pc, todo>>
    BY <2>2 DEF Match, Propose, vars, run
  <2> QED
    BY <2>1, <2>2 DEF Creates, wanted
<1> QED
  BY <1>1, <1>2 DEF OnePagePerChat, Unseen

-----------------------------------------------------------------------------

(* IInv holds in every reachable state. *)
THEOREM Invariance == Spec => []IInv
<1>1. Init => IInv
  <2>1. Init => OnePagePerChat /\ Unseen
    BY DEF Init, OnePagePerChat, Unseen, Creates
  <2> QED
    BY <2>1, InitTypes DEF IInv
<1>2. IInv /\ [Next]_vars => IInv'
  <2> SUFFICES ASSUME IInv, [Next]_vars PROVE IInv'
    OBVIOUS
  <2>1. TypeOK /\ OnePagePerChat /\ Unseen
    BY DEF IInv
  <2>2. TypeOK'
    BY <2>1, NextTypes
  <2>3. OnePagePerChat' /\ Unseen'
    <3>1. ASSUME NEW r \in Runs, Step(r) \/ Fail(r) \/ \E c \in Chats : WriteRepeated(r, c)
          PROVE  OnePagePerChat' /\ Unseen'
      BY <2>1, <3>1, RequestUnseen, QueryUnseen, OtherUnseen DEF Step
    <3>2. CASE (\E c \in Chats : Match(c) \/ Propose(c)) \/ UNCHANGED vars
      BY <2>1, <3>2, OtherUnseen
    <3> QED
      BY <3>1, <3>2 DEF Next
  <2> QED
    BY <2>2, <2>3 DEF IInv
<1> QED
  BY <1>1, <1>2, PTL DEF Spec

(* Every reachable state is well typed: no page and no row that a run will *)
(* write shows the summary of another chat (getDealProposals, runSync).    *)
THEOREM TypeCorrect == Spec => []TypeOK
<1>1. IInv => TypeOK
  BY DEF IInv
<1> QED
  BY <1>1, Invariance, PTL

(* A chat has one page unless two runs looked for it at once or a request  *)
(* was sent again, whatever else overlaps, fails or ends (runSync).        *)
THEOREM ChatsHaveOnePage == Spec => []OnePagePerChat
<1>1. IInv => OnePagePerChat
  BY DEF IInv
<1> QED
  BY <1>1, Invariance, PTL

-----------------------------------------------------------------------------
(* "DIFFS ONLY": the state that runs converge to                           *)

rowNow(c) == projectRow(c, deal[c], updatedAt[c])

(* A row as listAllDeals gives it, and with what it is to show. *)
listed(c) == [Done EXCEPT !.row.deal = deal[c], !.at = updatedAt[c]]

projected(c) == [listed(c) EXCEPT !.row = rowNow(c)]

(* Every projected chat has one page, and it shows the chat's row uncut. *)
Shown == \A c \in shownNow : rowNow(c).summary \notin Long /\ pages[c] = <<rowNow(c)>>

(* What a run has read is what D1 says, and it has nothing to write. *)
Current(r) ==
    /\ pc[r] = "listProposals" => \A c \in Chats : todo[r][c] = listed(c)
    /\ pc[r] = "query" =>
           \A c \in Chats : todo[r][c] = IF c \in shownNow THEN projected(c) ELSE Done
    /\ pc[r] = "write" => wanted(r) = {}
    /\ ~ wrote[r]

UpToDate == Shown /\ \A r \in Runs : Current(r)

(* The rows that ListProposals projects are those of shownNow. *)
LEMMA ProjectsShown ==
    ASSUME TypeOK, NEW r \in Runs, \A c \in Chats : todo[r][c] = listed(c)
    PROVE  newest(wanted(r), [c \in Chats |-> todo[r][c].at]) = shownNow
<1>1. \A c \in Chats : listed(c).at = updatedAt[c] /\ listed(c).row.deal = deal[c]
  BY DEF listed, Done, NoRow
<1>2. \A c \in Chats : listed(c).row = NoRow <=> deal[c] = 0
  BY DEF listed, Done, NoRow
<1>3. wanted(r) = {c \in Chats : deal[c] # 0}
  BY <1>2 DEF wanted
<1>4. [c \in Chats |-> todo[r][c].at] = updatedAt
  BY <1>1 DEF TypeOK
<1> QED
  BY <1>3, <1>4 DEF shownNow

(* A run that compares what D1 says with pages that show it skips them. *)
LEMMA QueryFindsAll ==
    ASSUME TypeOK, UpToDate, NEW r \in Runs, Query(r)
    PROVE  wanted(r)' = {}
<1>1. PICK page \in [Chats -> {0} \cup {p[2] : p \in queryDatabaseAll}] :
          /\ \A c \in Chats : IF \E p \in queryDatabaseAll : p[1] = c
                             THEN <<c, page[c]>> \in queryDatabaseAll ELSE page[c] = 0
          /\ todo' = [todo EXCEPT ![r] = [c \in Chats |->
                 IF \/ c \notin wanted(r)
                    \/ page[c] # 0 /\ pageMatches(pages[c][page[c]], todo[r][c].row)
                 THEN Done ELSE [@[c] EXCEPT !.page = page[c]]]]
  BY DEF Query
<1>2. \A c \in Chats : todo[r][c] = IF c \in shownNow THEN projected(c) ELSE Done
  BY DEF UpToDate, Current, Query
<1>3. ASSUME NEW c \in wanted(r)
      PROVE  page[c] # 0 /\ pageMatches(pages[c][page[c]], todo[r][c].row)
  <2>1. c \in shownNow
    BY <1>2, <1>3 DEF wanted, Done
  <2>2. c \in Chats /\ pages[c] = <<rowNow(c)>>
    BY <2>1 DEF wanted, UpToDate, Shown
  <2>3. todo[r][c].row = rowNow(c)
    BY <1>2, <2>1, <2>2 DEF projected, listed, Done
  <2>4. DOMAIN pages[c] = {1} /\ pages[c][1] = rowNow(c)
    BY <2>2
  <2>5. <<c, 1>> \in queryDatabaseAll /\ \A p \in queryDatabaseAll : p[1] = c => p[2] = 1
    BY <2>2, <2>4 DEF queryDatabaseAll, allPages
  <2>6. <<c, page[c]>> \in queryDatabaseAll
    BY <1>1, <2>2, <2>5
  <2>7. page[c] = 1
    BY <2>5, <2>6
  <2> QED
    BY <2>3, <2>4, <2>7 DEF pageMatches
<1>4. \A c \in Chats : todo'[r][c] = Done
  BY <1>1, <1>3 DEF TypeOK
<1> QED
  BY <1>4 DEF wanted, Done

(* Once every page shows its row and every run knows it, no run writes     *)
(* anything until D1 changes, however runs overlap, fail and start again   *)
(* ("DIFFS ONLY").  That runs get there is what DiffsOnly says.            *)
THEOREM UpToDateStays == Spec => [][UpToDate /\ UNCHANGED d1 => UpToDate' /\ UNCHANGED pages]_vars
<1>1. ASSUME TypeOK, UpToDate, [Next]_vars, UNCHANGED d1
      PROVE  UpToDate' /\ UNCHANGED pages
  <2>1. /\ \A c \in Chats : rowNow(c)' = rowNow(c) /\ listed(c)' = listed(c) /\ projected(c)' = projected(c)
        /\ shownNow' = shownNow
    BY <1>1 DEF d1, rowNow, listed, projected, projectRow, latest, recent, shownNow, newest
  <2>2. shownNow \subseteq Chats
    BY DEF shownNow, newest
  \* Pages stay, and so does each run but one, which stays current.
  <2>3. ASSUME UNCHANGED pages,
               \A q \in Runs : Current(q)' \/ UNCHANGED <<pc[q], todo[q], wrote[q]>>
        PROVE  UpToDate' /\ UNCHANGED pages
    <3>1. Shown'
      BY <1>1, <2>1, <2>2, <2>3 DEF UpToDate, Shown
    <3>2. \A q \in Runs : UNCHANGED <<pc[q], todo[q], wrote[q]>> => Current(q)'
      BY <1>1, <2>1, <2>2 DEF UpToDate, Current, wanted
    <3> QED
      BY <2>3, <3>1, <3>2 DEF UpToDate
  <2>4. ASSUME NEW r \in Runs, NEW c \in Chats PROVE ~ isNext(r, c)
    BY <1>1 DEF isNext, UpToDate, Current
  <2>5. ASSUME NEW r \in Runs, ListDeals(r) PROVE UpToDate' /\ UNCHANGED pages
    <3>1. UNCHANGED <<pages, wrote>> /\ \A q \in Runs \ {r} : UNCHANGED <<pc[q], todo[q], wrote[q]>>
      BY <1>1, <2>5 DEF ListDeals, goto, TypeOK
    <3>2. pc'[r] = "listProposals" /\ \A c \in Chats : todo'[r][c] = listed(c)
      BY <1>1, <2>5 DEF ListDeals, goto, TypeOK, listed
    <3>3. Current(r)'
      BY <1>1, <2>1, <3>1, <3>2 DEF Current, UpToDate
    <3> QED
      BY <2>3, <3>1, <3>3
  <2>6. ASSUME NEW r \in Runs, ListProposals(r) PROVE UpToDate' /\ UNCHANGED pages
    <3>1. UNCHANGED <<pages, wrote>> /\ \A q \in Runs \ {r} : UNCHANGED <<pc[q], todo[q], wrote[q]>>
      BY <1>1, <2>6 DEF ListProposals, goto, TypeOK
    <3>2. \A c \in Chats : todo[r][c] = listed(c)
      BY <1>1, <2>6 DEF ListProposals, UpToDate, Current
    <3>3. newest(wanted(r), [c \in Chats |-> todo[r][c].at]) = shownNow
      BY <1>1, <3>2, ProjectsShown
    <3>4. \A c \in Chats : todo[r][c].row.deal = deal[c] /\ todo[r][c].at = updatedAt[c]
      <4>1. \A c \in Chats : listed(c).at = updatedAt[c] /\ listed(c).row.deal = deal[c]
        BY DEF listed, Done, NoRow
      <4> QED
        BY <3>2, <4>1
    <3>5. pc'[r] = "query"
      BY <1>1, <2>6 DEF ListProposals, goto, TypeOK
    <3>6. \A c \in Chats : todo'[r][c] = IF c \in shownNow THEN projected(c) ELSE Done
      BY <1>1, <2>6, <3>2, <3>3, <3>4 DEF ListProposals, TypeOK, projected, rowNow
    <3>7. Current(r)'
      BY <1>1, <2>1, <2>2, <3>1, <3>5, <3>6 DEF Current, UpToDate
    <3> QED
      BY <2>3, <3>1, <3>7
  <2>7. ASSUME NEW r \in Runs, Query(r) PROVE UpToDate' /\ UNCHANGED pages
    <3>1. UNCHANGED <<pages, wrote>> /\ \A q \in Runs \ {r} : UNCHANGED <<pc[q], todo[q], wrote[q]>>
      BY <1>1, <2>7 DEF Query, goto, TypeOK
    <3>2. pc'[r] = "write"
      BY <1>1, <2>7 DEF Query, goto, TypeOK
    <3>3. wanted(r)' = {}
      BY <1>1, <2>7, QueryFindsAll
    <3>4. Current(r)'
      BY <1>1, <3>1, <3>2, <3>3 DEF Current, UpToDate
    <3> QED
      BY <2>3, <3>1, <3>4
  <2>8. ASSUME NEW r \in Runs, EndRun(r) \/ Fail(r) PROVE UpToDate' /\ UNCHANGED pages
    <3>1. UNCHANGED pages /\ \A q \in Runs \ {r} : UNCHANGED <<pc[q], todo[q], wrote[q]>>
      BY <1>1, <2>8 DEF EndRun, Fail, end, goto, TypeOK
    <3>2. pc'[r] = "idle" /\ wrote'[r] = FALSE
      BY <1>1, <2>8 DEF EndRun, Fail, end, goto, TypeOK
    <3>3. Current(r)'
      BY <3>2 DEF Current
    <3> QED
      BY <2>3, <3>1, <3>3
  <2>9. ASSUME NEW r \in Runs, NEW c \in Chats, Write(r, c) \/ WriteRepeated(r, c) PROVE FALSE
    BY <2>4, <2>9 DEF Write, WriteRepeated, createPage, updatePage
  <2>10. ASSUME NEW c \in Chats, Match(c) \/ Propose(c) PROVE FALSE
    <3>1. clock' = clock + 1 /\ clock' = clock /\ clock \in Nat
      BY <1>1, <2>10, BeforeIsNat, SyncAssumption DEF Match, Propose, change, d1, TypeOK, Changes
    <3> QED
      BY <3>1
  <2>11. CASE UNCHANGED vars
    BY <2>3, <2>11 DEF vars, run
  <2> QED
    BY <1>1, <2>5, <2>6, <2>7, <2>8, <2>9, <2>10, <2>11 DEF Next, Step
<1>2. TypeOK /\ [Next]_vars => [UpToDate /\ UNCHANGED d1 => UpToDate' /\ UNCHANGED pages]_vars
  BY <1>1
<1> QED
  BY <1>2, TypeCorrect, PTL DEF Spec

===============================================================================
