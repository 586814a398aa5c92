----------------------------- MODULE ExtractProofs ----------------------------
(***************************************************************************)
(* Proofs about Extract, for any messages, chats, dispatchers, batch limit *)
(* and attempts.                                                           *)
(*                                                                         *)
(* An instance inserts again only when an acknowledgement was lost, so     *)
(* what it may have inserted is bounded by the faults so far and by the    *)
(* step it is in (Inserted); an instance that is marking has inserted      *)
(* (MarksProposed), and its payload never changes (Started).               *)
(*                                                                         *)
(* Ordered is what makes an id stand for a thread, when messages come in   *)
(* order: it is why a skip is safe.  Apart is what is left to assume for   *)
(* no message to be proposed twice: that batches do not overlap.           *)
(***************************************************************************)
EXTENDS Extract, FiniteSetTheorems, WellFoundedInduction, TLAPS

(* One insert for each lost acknowledgement, and one that was acknowledged. *)
Inserted ==
    \A k \in InstanceIds :
        /\ proposals[k] <= 1 + faults
        /\ step[k] \in {"none", "resolve-deal", "participants", "extract", "propose"} =>
               proposals[k] <= faults

MarksProposed == \A k \in InstanceIds : step[k] = "mark-extracted" => proposals[k] > 0

Started ==
    \A k \in InstanceIds :
        step[k] = "none" => proposals[k] = 0 /\ thread[k] = {} /\ tries[k] = 0

Attempts == \A k \in InstanceIds : Running(k) => tries[k] < MaxTries

(* The inductive invariant. *)
IInv ==
    /\ TypeOK
    /\ Inserted
    /\ MarksProposed
    /\ Started
    /\ Attempts
    /\ ExtractedIsProposed

(* Nothing is stored or started. *)
LEMMA InitIInv == Init => IInv
  BY ExtractAssumption
  DEF Init, IInv, TypeOK, Inserted, MarksProposed, Started, Attempts, Running, Steps,
      ExtractedIsProposed

-----------------------------------------------------------------------------
(* Every step keeps the invariant                                          *)

(* What the dispatchers do besides starting an instance. *)
LEMMA DispatcherIInv ==
    ASSUME IInv, todo' \in [Dispatchers -> SUBSET Messages], faults' \in 0..MaxFaults,
           faults <= faults', UNCHANGED <<row, step, thread, tries, proposals, unacked>>
    PROVE  IInv'
<1>1. TypeOK'
  BY DEF IInv, TypeOK
<1>2. Inserted'
  BY ExtractAssumption DEF IInv, TypeOK, Inserted
<1>3. MarksProposed' /\ Started' /\ Attempts' /\ ExtractedIsProposed'
  BY DEF IInv, MarksProposed, Started, Attempts, Running, ExtractedIsProposed
<1> QED
  BY <1>1, <1>2, <1>3 DEF IInv

(* A batch is a set of messages. *)
LEMMA BatchType == getUnextractedMessages \in SUBSET Messages
  BY DEF getUnextractedMessages

(* Dispatch starts an instance that was not there, or skips the thread. *)
LEMMA DispatchIInv == ASSUME IInv, NEW d \in Dispatchers, Dispatch(d) PROVE IInv'
<1> DEFINE msgs == firstThread(todo[d])
           k == instanceId(msgs)
<1>1. msgs \in SUBSET Messages
  BY DEF firstThread, IInv, TypeOK
<1>2. todo' \in [Dispatchers -> SUBSET Messages]
  BY <1>1 DEF Dispatch, IInv, TypeOK
<1>3. UNCHANGED <<row, tries, proposals, unacked, faults>>
  BY DEF Dispatch
<1>4. CASE UNCHANGED <<step, thread>>
  BY <1>2, <1>3, <1>4, DispatcherIInv, ExtractAssumption DEF IInv, TypeOK
<1>5. CASE /\ step[k] = "none"
           /\ step' = [step EXCEPT ![k] = "resolve-deal"]
           /\ thread' = [thread EXCEPT ![k] = msgs]
  <2> HIDE DEF msgs, k
  <2>1. TypeOK'
    <3>1. step' \in [InstanceIds -> Steps \cup {"none", "done", "errored"}]
      BY <1>5 DEF IInv, TypeOK, Steps
    <3>2. thread' \in [InstanceIds -> SUBSET Messages]
      BY <1>1, <1>5 DEF IInv, TypeOK
    <3> QED
      BY <1>2, <1>3, <3>1, <3>2 DEF IInv, TypeOK
  <2>2. \A j \in InstanceIds : j # k => step'[j] = step[j] /\ thread'[j] = thread[j]
    BY <1>5 DEF IInv, TypeOK
  <2>3. k \in InstanceIds => step'[k] = "resolve-deal" /\ proposals[k] = 0 /\ tries[k] < MaxTries
    BY <1>5, ExtractAssumption DEF IInv, TypeOK, Started
  <2>4. Inserted'
    BY <1>3, <2>2, <2>3, ExtractAssumption DEF IInv, TypeOK, Inserted
  <2>5. MarksProposed' /\ Started'
    BY <1>3, <2>2, <2>3 DEF IInv, MarksProposed, Started
  <2>6. Attempts'
    BY <1>3, <2>2, <2>3 DEF IInv, Attempts, Running
  <2>7. ExtractedIsProposed'
    <3>1. ASSUME NEW j \in InstanceIds, proposals[j] > 0 PROVE thread'[j] = thread[j]
      BY <3>1, <2>2, <2>3
    <3> QED
      BY <1>3, <3>1 DEF IInv, ExtractedIsProposed
  <2> QED
    BY <2>1, <2>4, <2>5, <2>6, <2>7 DEF IInv
<1> QED
  BY <1>4, <1>5 DEF Dispatch

(* A step of one running instance, with what it may do to its counters. *)
LEMMA InstanceIInv ==
    ASSUME IInv, NEW k \in InstanceIds, Running(k),
           NEW s \in Steps \cup {"done", "errored"}, NEW n \in 0..MaxTries, NEW i \in Nat,
           step' = [step EXCEPT ![k] = s],
           tries' = [tries EXCEPT ![k] = n],
           proposals' = [proposals EXCEPT ![k] = i],
           UNCHANGED <<todo, thread>>, unacked' \subseteq InstanceIds,
           faults' \in 0..MaxFaults, faults <= faults',
           proposals[k] <= i, i <= 1 + faults',
           s \in {"resolve-deal", "participants", "extract", "propose"} => i <= faults',
           s = "mark-extracted" => i > 0,
           s \in Steps => n < MaxTries,
           \/ row' = row
           \/ step[k] = "mark-extracted" /\ markMessagesExtracted(thread[k])
    PROVE  IInv'
<1>1. /\ step'[k] = s /\ tries'[k] = n /\ proposals'[k] = i
      /\ \A j \in InstanceIds : j # k =>
            step'[j] = step[j] /\ tries'[j] = tries[j] /\ proposals'[j] = proposals[j]
  BY DEF IInv, TypeOK
<1>2. TypeOK'
  <2>1. row' \in [Messages -> {"absent", "new", "extracted"}]
    BY DEF IInv, TypeOK, markMessagesExtracted
  <2>2. i \in 0..(1 + MaxFaults)
    <3>1. faults' \in Nat /\ faults' <= MaxFaults /\ MaxFaults \in Nat
      BY ExtractAssumption
    <3>2. \A f \in Nat : i <= 1 + f /\ f <= MaxFaults => i \in 0..(1 + MaxFaults)
      BY <3>1
    <3> QED
      BY <3>1, <3>2
  <2>3. step' \in [InstanceIds -> Steps \cup {"none", "done", "errored"}]
    BY DEF IInv, TypeOK
  <2>4. tries' \in [InstanceIds -> 0..MaxTries] /\ proposals' \in [InstanceIds -> 0..(1 + MaxFaults)]
    BY <2>2 DEF IInv, TypeOK
  <2> QED
    BY <2>1, <2>3, <2>4 DEF IInv, TypeOK
<1>3. Inserted'
  <2>1. ASSUME NEW j \in InstanceIds
        PROVE  /\ proposals'[j] <= 1 + faults'
               /\ step'[j] \in {"none", "resolve-deal", "participants", "extract", "propose"} =>
                      proposals'[j] <= faults'
    <3>1. CASE j = k
      BY <3>1, <1>1 DEF Steps
    <3>2. CASE j # k
      BY <3>2, <1>1, ExtractAssumption DEF IInv, TypeOK, Inserted
    <3> QED
      BY <3>1, <3>2
  <2> QED
    BY <2>1 DEF Inserted
<1>4. MarksProposed' /\ Started'
  BY <1>1 DEF IInv, MarksProposed, Started, Steps
<1>5. Attempts'
  BY <1>1 DEF IInv, Attempts, Running
<1>6. \A j \in InstanceIds : proposals[j] > 0 => proposals'[j] > 0
  BY <1>1 DEF IInv, TypeOK
<1>7. ExtractedIsProposed'
  <2>1. CASE row' = row
    BY <2>1, <1>6 DEF IInv, ExtractedIsProposed
  <2>2. CASE step[k] = "mark-extracted" /\ markMessagesExtracted(thread[k])
    <3>1. proposals[k] > 0
      BY <2>2 DEF IInv, MarksProposed
    <3> QED
      BY <2>2, <3>1, <1>6 DEF IInv, ExtractedIsProposed, markMessagesExtracted
  <2> QED
    BY <2>1, <2>2
<1> QED
  BY <1>2, <1>3, <1>4, <1>5, <1>7 DEF IInv

(* A failed attempt stays within MaxTries. *)
LEMMA RetryIInv ==
    ASSUME IInv, NEW k \in InstanceIds, Running(k), retry(k), NEW i \in Nat,
           proposals' = [proposals EXCEPT ![k] = i],
           UNCHANGED <<todo, thread>>, unacked' \subseteq InstanceIds,
           faults < MaxFaults, faults' = faults + 1,
           proposals[k] <= i, i <= 1 + faults,
           \/ i = proposals[k]
           \/ step[k] = "propose",
           \/ row' = row
           \/ step[k] = "mark-extracted" /\ markMessagesExtracted(thread[k])
    PROVE  IInv'
<1> DEFINE s == IF tries[k] + 1 = MaxTries THEN "errored" ELSE step[k]
<1>1. tries[k] \in 0..MaxTries /\ tries[k] < MaxTries /\ step[k] \in Steps
  BY DEF IInv, TypeOK, Attempts, Running
<1>2. /\ s \in Steps \cup {"done", "errored"}
      /\ tries[k] + 1 \in 0..MaxTries
      /\ s \in Steps => tries[k] + 1 < MaxTries
  BY <1>1, ExtractAssumption DEF Steps
<1>3. step' = [step EXCEPT ![k] = s] /\ tries' = [tries EXCEPT ![k] = tries[k] + 1]
  BY DEF retry
<1>4. faults \in 0..MaxFaults /\ proposals[k] \in Nat
  BY ExtractAssumption DEF IInv, TypeOK
<1>5. faults' \in 0..MaxFaults /\ faults <= faults' /\ i <= 1 + faults'
  BY <1>4, ExtractAssumption
<1>6. s \in {"resolve-deal", "participants", "extract", "propose"} => i <= faults'
  BY <1>4
<1>7. s = "mark-extracted" => i > 0
  <2>1. ASSUME s = "mark-extracted" PROVE step[k] = "mark-extracted"
    BY <2>1
  <2> QED
    BY <2>1, <1>4 DEF IInv, MarksProposed
<1> HIDE DEF s
<1> QED
  BY <1>2, <1>3, <1>5, <1>6, <1>7, InstanceIInv

(* A step that succeeds starts the next one's attempts from 0. *)
LEMMA GotoIInv ==
    ASSUME IInv, NEW k \in InstanceIds, Running(k),
           NEW s \in Steps \cup {"done"}, goto(k, s), NEW i \in Nat,
           proposals' = [proposals EXCEPT ![k] = i],
           UNCHANGED <<todo, thread, unacked, faults>>,
           proposals[k] <= i, i <= 1 + faults,
           s \in {"resolve-deal", "participants", "extract", "propose"} => i <= faults,
           s = "mark-extracted" => i > 0,
           \/ row' = row
           \/ step[k] = "mark-extracted" /\ markMessagesExtracted(thread[k])
    PROVE  IInv'
<1>1. faults \in 0..MaxFaults /\ faults <= faults
  BY ExtractAssumption DEF IInv, TypeOK
<1>2. 0 \in 0..MaxTries /\ 0 < MaxTries
  BY ExtractAssumption
<1>3. step' = [step EXCEPT ![k] = s] /\ tries' = [tries EXCEPT ![k] = 0]
  BY DEF goto
<1>4. unacked' \subseteq InstanceIds
  BY DEF IInv, TypeOK
<1> QED
  BY <1>1, <1>2, <1>3, <1>4, InstanceIInv

(* An instance whose step succeeds. *)
LEMMA AdvanceIInv == ASSUME IInv, NEW k \in InstanceIds, Advance(k) PROVE IInv'
<1>1. /\ proposals[k] \in Nat /\ proposals[k] <= 1 + faults
      /\ faults \in Nat
      /\ proposals \in [InstanceIds -> Nat]
  BY ExtractAssumption DEF IInv, TypeOK, Inserted
<1>2. CASE Prepare(k)
  <2>1. PICK s \in {"participants", "extract", "propose"} : goto(k, s)
    BY <1>2 DEF Prepare
  <2>2. Running(k) /\ proposals[k] <= faults
    BY <1>2 DEF Prepare, Running, Steps, IInv, Inserted
  <2>3. proposals' = [proposals EXCEPT ![k] = proposals[k]] /\ proposals[k] <= proposals[k]
    BY <1>1, <1>2 DEF Prepare
  <2>4. UNCHANGED <<todo, thread, unacked, faults>> /\ row' = row
    BY <1>2 DEF Prepare
  <2>5. s \in Steps \cup {"done"} /\ s # "mark-extracted"
    BY DEF Steps
  <2> QED
    BY <1>1, <2>1, <2>2, <2>3, <2>4, <2>5, GotoIInv
<1>3. CASE Propose(k)
  <2>1. Running(k) /\ proposals[k] <= faults
    BY <1>3 DEF Propose, Running, Steps, IInv, Inserted
  <2>2. proposals' = [proposals EXCEPT ![k] = proposals[k] + 1]
    BY <1>3 DEF Propose, insertProposal
  <2>3. UNCHANGED <<todo, thread, unacked, faults>> /\ row' = row /\ goto(k, "mark-extracted")
    BY <1>3 DEF Propose
  <2>4. "mark-extracted" \in Steps \cup {"done"}
    BY DEF Steps
  <2>5. /\ proposals[k] + 1 \in Nat /\ proposals[k] <= proposals[k] + 1
        /\ proposals[k] + 1 <= 1 + faults /\ proposals[k] + 1 > 0
    BY <1>1, <2>1
  <2> QED
    BY <2>1, <2>2, <2>3, <2>4, <2>5, GotoIInv
<1>4. CASE MarkExtracted(k)
  <2>1. Running(k) /\ step[k] = "mark-extracted" /\ markMessagesExtracted(thread[k])
    BY <1>4 DEF MarkExtracted, Running, Steps
  <2>2. proposals' = [proposals EXCEPT ![k] = proposals[k]] /\ proposals[k] <= proposals[k]
    BY <1>1, <1>4 DEF MarkExtracted
  <2>3. UNCHANGED <<todo, thread, unacked, faults>> /\ goto(k, "done")
    BY <1>4 DEF MarkExtracted
  <2>4. "done" \in Steps \cup {"done"}
    OBVIOUS
  <2> QED
    BY <1>1, <2>1, <2>2, <2>3, <2>4, GotoIInv
<1> QED
  BY <1>2, <1>3, <1>4 DEF Advance

(* Ingest stores a message. *)
LEMMA StoreIInv == ASSUME IInv, NEW m \in Messages, Store(m) PROVE IInv'
<1>1. TypeOK'
  BY DEF IInv, TypeOK, Store
<1>2. Inserted' /\ MarksProposed' /\ Started' /\ Attempts'
  BY DEF IInv, Inserted, MarksProposed, Started, Attempts, Running, Store
<1>3. ExtractedIsProposed'
  BY DEF IInv, TypeOK, ExtractedIsProposed, Store
<1> QED
  BY <1>1, <1>2, <1>3 DEF IInv

(* Every step keeps the invariant. *)
LEMMA NextIInv == IInv /\ [Next]_vars => IInv'
<1> SUFFICES ASSUME IInv, [Next]_vars PROVE IInv'
  OBVIOUS
<1>1. faults \in 0..MaxFaults /\ MaxFaults \in Nat
  BY ExtractAssumption DEF IInv, TypeOK
<1>2. \A k \in InstanceIds : /\ proposals[k] \in Nat /\ proposals[k] <= 1 + faults
                             /\ proposals[k] <= proposals[k]
  BY DEF IInv, TypeOK, Inserted
<1>3. ASSUME NEW d \in Dispatchers, List(d) PROVE IInv'
  <2>1. todo' \in [Dispatchers -> SUBSET Messages]
    BY <1>3, BatchType DEF List, IInv, TypeOK
  <2> QED
    BY <1>1, <1>3, <2>1, DispatcherIInv DEF List
<1>4. ASSUME NEW d \in Dispatchers, DispatchFails(d) \/ DispatcherDies(d) PROVE IInv'
  <2>1. todo' \in [Dispatchers -> SUBSET Messages]
    BY <1>4 DEF DispatchFails, DispatcherDies, IInv, TypeOK
  <2>2. faults' \in 0..MaxFaults /\ faults <= faults'
    BY <1>1, <1>4 DEF DispatchFails, DispatcherDies, fault
  <2>3. UNCHANGED <<row, step, thread, tries, proposals, unacked>>
    BY <1>4 DEF DispatchFails, DispatcherDies
  <2> QED
    BY <2>1, <2>2, <2>3, DispatcherIInv
<1>5. ASSUME NEW k \in InstanceIds, ProposeUnacknowledged(k) PROVE IInv'
  <2>1. Running(k) /\ step[k] = "propose" /\ proposals[k] <= faults
    BY <1>5 DEF ProposeUnacknowledged, Running, Steps, IInv, Inserted
  <2>2. proposals' = [proposals EXCEPT ![k] = proposals[k] + 1]
    BY <1>5 DEF ProposeUnacknowledged, insertProposal
  <2>3. UNCHANGED <<row, todo, thread>> /\ retry(k) /\ faults < MaxFaults /\ faults' = faults + 1
    BY <1>5 DEF ProposeUnacknowledged, fault
  <2>5. unacked' \subseteq InstanceIds
    BY <1>5 DEF ProposeUnacknowledged, IInv, TypeOK
  <2>4. proposals[k] + 1 \in Nat /\ proposals[k] + 1 <= 1 + faults /\ proposals[k] <= proposals[k] + 1
    BY <1>1, <1>2, <2>1
  <2> QED
    BY <2>1, <2>2, <2>3, <2>4, <2>5, RetryIInv
<1>6. ASSUME NEW k \in InstanceIds, MarkUnacknowledged(k) PROVE IInv'
  <2>1. Running(k) /\ step[k] = "mark-extracted" /\ markMessagesExtracted(thread[k])
    BY <1>6 DEF MarkUnacknowledged, Running, Steps
  <2>2. proposals' = [proposals EXCEPT ![k] = proposals[k]]
    BY <1>6 DEF MarkUnacknowledged, IInv, TypeOK
  <2>3. UNCHANGED <<todo, thread>> /\ retry(k) /\ faults < MaxFaults /\ faults' = faults + 1
    BY <1>6 DEF MarkUnacknowledged, fault
  <2>4. unacked' \subseteq InstanceIds
    BY <1>6 DEF MarkUnacknowledged, IInv, TypeOK
  <2> QED
    BY <1>2, <2>1, <2>2, <2>3, <2>4, RetryIInv
<1>7. ASSUME NEW k \in InstanceIds, StepFails(k) PROVE IInv'
  <2>1. proposals' = [proposals EXCEPT ![k] = proposals[k]]
    BY <1>7 DEF StepFails, IInv, TypeOK
  <2>2. /\ UNCHANGED <<row, todo, thread>> /\ retry(k) /\ Running(k)
        /\ faults < MaxFaults /\ faults' = faults + 1
    BY <1>7 DEF StepFails, fault
  <2>3. unacked' \subseteq InstanceIds
    BY <1>7 DEF StepFails, IInv, TypeOK
  <2> QED
    BY <1>2, <2>1, <2>2, <2>3, RetryIInv
<1>8. CASE UNCHANGED vars
  BY <1>8 DEF vars, IInv, TypeOK, Inserted, MarksProposed, Started, Attempts, Running,
      ExtractedIsProposed
<1> QED
  BY <1>3, <1>4, <1>5, <1>6, <1>7, <1>8, DispatchIInv, AdvanceIInv, StoreIInv DEF Next

-----------------------------------------------------------------------------
(* The theorems                                                            *)

(* The invariant is inductive. *)
THEOREM Invariance == Spec => []IInv
<1> QED
  BY InitIInv, NextIInv, PTL DEF Spec

(* Rows, instances and counters keep their types; in particular no         *)
(* instance inserts more than one proposal and one per fault.              *)
THEOREM TypeCorrect == Spec => []TypeOK
<1>1. IInv => TypeOK
  BY DEF IInv
<1> QED
  BY Invariance, <1>1, PTL

(* No message is marked extracted unless its thread was proposed. *)
THEOREM ExtractedAreProposed == Spec => []ExtractedIsProposed
<1>1. IInv => ExtractedIsProposed
  BY DEF IInv
<1> QED
  BY Invariance, <1>1, PTL

(* A thread is proposed at most once, however many dispatchers overlap: an *)
(* instance's id is made of its messages, and it inserts once, unless the  *)
(* reply to an insert is lost.                                             *)
THEOREM ThreadsAreProposedOnce == Spec => []ThreadProposedOnce
<1> DEFINE OwnId == \A k \in InstanceIds : thread[k] # {} => k = instanceId(thread[k])
           Once == \A k \in InstanceIds \ unacked :
                       /\ proposals[k] <= 1
                       /\ step[k] \in {"none", "resolve-deal", "participants", "extract", "propose"}
                              => proposals[k] = 0
<1>1. Init => OwnId /\ Once
  BY DEF Init
<1>2. IInv /\ OwnId /\ Once /\ [Next]_vars => OwnId' /\ Once'
  <2> SUFFICES ASSUME IInv, OwnId, Once, [Next]_vars PROVE OwnId' /\ Once'
    OBVIOUS
  <2>1. ASSUME NEW d \in Dispatchers, Dispatch(d) PROVE OwnId' /\ Once'
    <3> DEFINE msgs == firstThread(todo[d])
               k == instanceId(msgs)
    <3>1. CASE UNCHANGED <<step, thread>>
      BY <2>1, <3>1 DEF Dispatch
    <3>2. CASE /\ step[k] = "none"
               /\ step' = [step EXCEPT ![k] = "resolve-deal"]
               /\ thread' = [thread EXCEPT ![k] = msgs]
      <4> HIDE DEF msgs
      <4>1. \A j \in InstanceIds :
              /\ thread'[j] = IF j = k THEN msgs ELSE thread[j]
              /\ step'[j] = IF j = k THEN "resolve-deal" ELSE step[j]
        BY <3>2 DEF IInv, TypeOK
      <4>2. proposals' = proposals /\ unacked' = unacked
        BY <2>1 DEF Dispatch
      <4>3. OwnId'
        BY <4>1
      <4>4. Once'
        BY <3>2, <4>1, <4>2
      <4> QED
        BY <4>3, <4>4
    <3> QED
      BY <2>1, <3>1, <3>2 DEF Dispatch
  <2>2. ASSUME UNCHANGED <<step, thread, proposals, unacked>> PROVE OwnId' /\ Once'
    BY <2>2
  <2>3. ASSUME NEW d \in Dispatchers, List(d) \/ DispatchFails(d) \/ DispatcherDies(d)
        PROVE  OwnId' /\ Once'
    BY <2>2, <2>3 DEF List, DispatchFails, DispatcherDies
  <2>4. ASSUME NEW k \in InstanceIds, Advance(k) PROVE OwnId' /\ Once'
    <3>1. UNCHANGED <<thread, unacked>>
      BY <2>4 DEF Advance, Prepare, Propose, MarkExtracted
    <3>2. CASE Prepare(k)
      BY <3>2 DEF Prepare, goto, IInv, TypeOK
    <3>3. CASE Propose(k)
      BY <3>3 DEF Propose, goto, insertProposal, IInv, TypeOK
    <3>4. CASE MarkExtracted(k)
      BY <3>4 DEF MarkExtracted, goto, IInv, TypeOK
    <3>5. Once'
      BY <2>4, <3>2, <3>3, <3>4 DEF Advance
    <3> QED
      BY <3>1, <3>5
  <2>5. ASSUME NEW k \in InstanceIds, StepFails(k) PROVE OwnId' /\ Once'
    <3>1. UNCHANGED <<thread, proposals, unacked>>
      BY <2>5 DEF StepFails
    <3>2. \A j \in InstanceIds : step'[j] = step[j] \/ step'[j] = "errored"
      BY <2>5 DEF StepFails, retry, IInv, TypeOK
    <3> QED
      BY <3>1, <3>2
  <2>6. ASSUME NEW k \in InstanceIds, ProposeUnacknowledged(k) \/ MarkUnacknowledged(k)
        PROVE  OwnId' /\ Once'
    <3>1. UNCHANGED thread
      BY <2>6 DEF ProposeUnacknowledged, MarkUnacknowledged
    <3>2. /\ unacked \subseteq unacked'
          /\ \A j \in InstanceIds \ unacked' :
                /\ proposals'[j] = proposals[j]
                /\ step'[j] \in {step[j], "errored"}
      BY <2>6 DEF ProposeUnacknowledged, MarkUnacknowledged, insertProposal, retry, IInv, TypeOK
    <3> QED
      BY <3>1, <3>2
  <2>7. ASSUME NEW m \in Messages, Store(m) PROVE OwnId' /\ Once'
    BY <2>2, <2>7 DEF Store
  <2>8. CASE UNCHANGED vars
    BY <2>2, <2>8 DEF vars
  <2> HIDE DEF OwnId, Once
  <2> QED
    BY <2>1, <2>3, <2>4, <2>5, <2>6, <2>7, <2>8 DEF Next
<1>3. IInv /\ OwnId /\ Once => ThreadProposedOnce
  BY DEF IInv, TypeOK, ThreadProposedOnce
<1> HIDE DEF OwnId, Once
<1> QED
  BY <1>1, <1>2, <1>3, Invariance, PTL DEF Spec

-----------------------------------------------------------------------------
(* When a chat's messages are stored oldest first                          *)

sameChat(m, n) == ChatOf[m] = ChatOf[n]

StoredInOrder ==
    \A m, n \in Messages : n < m /\ sameChat(m, n) /\ row[m] # "absent" => row[n] # "absent"

ExtractedInOrder ==
    \A m, n \in Messages :
        n < m /\ sameChat(m, n) /\ row[m] = "extracted" => row[n] = "extracted"

(* What a batch leaves out of a chat is extracted, and older than all that *)
(* it has of it.                                                           *)
BatchInOrder ==
    \A d \in Dispatchers : \A m \in todo[d], n \in Messages \ todo[d] :
        n < m /\ sameChat(m, n) =>
            /\ row[n] = "extracted"
            /\ \A l \in todo[d] : sameChat(l, n) => n < l

(* So an id determines its thread, and what is older is extracted. *)
Span(k) == {m \in Messages : sameChat(m, k[1]) /\ k[1] <= m /\ m <= k[2]}

WholeThreads ==
    \A k \in InstanceIds :
        step[k] # "none" =>
            /\ thread[k] = Span(k)
            /\ \A m \in Messages : m < k[1] /\ sameChat(m, k[1]) => row[m] = "extracted"
            /\ step[k] = "done" => \A m \in thread[k] : row[m] = "extracted"

(* Inductive together with IInv. *)
Ordered == StoredInOrder /\ ExtractedInOrder /\ BatchInOrder /\ WholeThreads

(* A set of numbers has a least and a greatest one. *)
LEMMA Extremes ==
    ASSUME NEW S \in SUBSET Messages, S # {}
    PROVE  /\ Min(S) \in S /\ Max(S) \in S
           /\ \A x \in S : Min(S) <= x /\ x <= Max(S)
<1>1. MaxMessage \in Nat
  BY ExtractAssumption
<1>2. \E x \in S : \A y \in S : x <= y
  <2>1. PICK least \in S : \A y \in S : ~ (<<y, least>> \in OpToRel(<, Nat))
    <3>1. S \subseteq Nat
      BY <1>1 DEF Messages
    <3> QED
      BY <3>1, NatLessThanWellFounded, WFMin
  <2>2. ASSUME NEW y \in S PROVE least <= y
    <3>1. y \in Nat /\ least \in Nat
      BY <1>1 DEF Messages
    <3>2. ~ (y < least)
      BY <2>1, <3>1 DEF OpToRel
    <3> QED
      BY <3>1, <3>2
  <2> QED
    BY <2>2
<1>3. \E x \in S : \A y \in S : x >= y
  <2> DEFINE T == {MaxMessage - x : x \in S}
  <2>1. T \subseteq Nat /\ T # {}
    <3>1. PICK x \in S : TRUE
      OBVIOUS
    <3>2. \A y \in S : MaxMessage - y \in Nat
      BY <1>1 DEF Messages
    <3> QED
      BY <3>1, <3>2
  <2>2. PICK least \in T : \A y \in T : ~ (<<y, least>> \in OpToRel(<, Nat))
    <3> HIDE DEF T
    <3> QED
      BY <2>1, NatLessThanWellFounded, WFMin
  <2>3. PICK x \in S : least = MaxMessage - x
    OBVIOUS
  <2>4. ASSUME NEW y \in S PROVE x >= y
    <3>1. MaxMessage - y \in T /\ MaxMessage - y \in Nat /\ least \in Nat
      BY <2>1
    <3>2. ~ (MaxMessage - y < least)
      <4> HIDE DEF T
      <4> QED
        BY <2>2, <3>1 DEF OpToRel
    <3>3. x \in Int /\ y \in Int
      BY <1>1 DEF Messages
    <3> QED
      BY <1>1, <2>3, <3>2, <3>3
  <2> QED
    BY <2>4
<1>4. Min(S) \in S /\ \A y \in S : Min(S) <= y
  BY <1>2 DEF Min
<1>5. Max(S) \in S /\ \A y \in S : Max(S) >= y
  BY <1>3 DEF Max
<1> QED
  <2>1. S \subseteq Int
    BY <1>1 DEF Messages
  <2> QED
    BY <1>4, <1>5, <2>1

(* A batch is a beginning of what is not extracted. *)
LEMMA BatchStarts ==
    ASSUME NEW m \in getUnextractedMessages, NEW n \in Messages, n < m, row[n] = "new"
    PROVE  n \in getUnextractedMessages
<1> DEFINE new == {x \in Messages : row[x] = "new"}
           older(x) == {y \in new : y < x}
<1>1. m \in Messages /\ Cardinality(older(m)) < BatchLimit
  BY DEF getUnextractedMessages
<1>2. older(n) \subseteq older(m)
  <2>1. ASSUME NEW y \in older(n) PROVE y < m
    <3>1. y \in Int /\ n \in Int /\ m \in Int /\ y < n
      BY <1>1, ExtractAssumption DEF Messages
    <3> QED
      BY <3>1
  <2> QED
    BY <2>1
<1>3. IsFiniteSet(older(m))
  <2>1. IsFiniteSet(Messages)
    BY ExtractAssumption, FS_Interval DEF Messages
  <2>2. older(m) \subseteq Messages
    OBVIOUS
  <2> HIDE DEF older
  <2> QED
    BY <2>1, <2>2, FS_Subset
<1>4. /\ Cardinality(older(n)) <= Cardinality(older(m))
      /\ Cardinality(older(n)) \in Nat /\ Cardinality(older(m)) \in Nat
  <2> HIDE DEF older
  <2> QED
    BY <1>2, <1>3, FS_Subset, FS_CardinalityType
<1>5. Cardinality(older(n)) < BatchLimit
  <2> HIDE DEF older
  <2> QED
    BY <1>1, <1>4, ExtractAssumption
<1> QED
  BY <1>5 DEF getUnextractedMessages

(* The thread a dispatcher is at: all that its id stands for. *)
LEMMA ThreadIsRange ==
    ASSUME IInv, Ordered, NEW d \in Dispatchers, todo[d] # {}
    PROVE  LET msgs == firstThread(todo[d])
               k    == instanceId(msgs)
           IN  /\ k \in InstanceIds
               /\ msgs = Span(k)
               /\ \A m \in Messages : m < k[1] /\ sameChat(m, k[1]) => row[m] = "extracted"
<1> DEFINE msgs == firstThread(todo[d])
           k    == instanceId(msgs)
           lo   == Min(msgs)
           hi   == Max(msgs)
<1>1. todo[d] \in SUBSET Messages
  BY DEF IInv, TypeOK
<1>2. msgs \in SUBSET Messages /\ msgs # {}
  <2>1. Min(todo[d]) \in todo[d]
    BY <1>1, Extremes
  <2> QED
    BY <1>1, <2>1 DEF firstThread
<1>3. lo \in msgs /\ hi \in msgs /\ \A x \in msgs : lo <= x /\ x <= hi
  <2> HIDE DEF msgs
  <2> QED
    BY <1>2, Extremes
<1>4. \A x \in Messages, y \in msgs : sameChat(x, y) => (x \in msgs <=> x \in todo[d])
  BY DEF firstThread, sameChat
<1>5. \A x, y \in msgs : sameChat(x, y)
  BY DEF firstThread, sameChat
<1>6. k = <<lo, hi>> /\ k[1] = lo /\ k[2] = hi
  BY DEF instanceId
<1> HIDE DEF msgs, k, lo, hi
<1>7. k \in InstanceIds
  BY <1>2, <1>3, <1>5, <1>6 DEF InstanceIds, sameChat
<1>8. Messages \subseteq Int
  BY ExtractAssumption DEF Messages
<1>9. msgs \subseteq todo[d]
  BY <1>2, <1>4 DEF sameChat
<1>10. ASSUME NEW m \in Messages, m < lo, sameChat(m, lo) PROVE row[m] = "extracted"
  <2>1. m \notin todo[d]
    <3>1. m \in Int /\ lo \in Int
      BY <1>2, <1>3, <1>8
    <3>2. m \notin msgs
      BY <1>3, <1>10, <3>1
    <3> QED
      BY <1>3, <1>4, <1>10, <3>2
  <2> QED
    BY <1>1, <1>3, <1>9, <1>10, <2>1 DEF Ordered, BatchInOrder, sameChat
<1>11. ASSUME NEW m \in Messages, sameChat(m, lo), lo <= m, m <= hi PROVE m \in msgs
  <2> SUFFICES ASSUME m \notin msgs PROVE FALSE
    OBVIOUS
  <2>1. m \notin todo[d]
    BY <1>3, <1>4, <1>11
  <2>2. m < hi /\ sameChat(hi, m) /\ sameChat(lo, m)
    BY <1>2, <1>3, <1>5, <1>8, <1>11 DEF sameChat
  <2>3. m < lo
    BY <1>1, <1>3, <1>9, <2>1, <2>2 DEF Ordered, BatchInOrder
  <2> QED
    BY <1>2, <1>3, <1>8, <1>11, <2>3
<1>12. msgs = Span(k)
  BY <1>2, <1>3, <1>5, <1>6, <1>11 DEF Span
<1> QED
  BY <1>6, <1>7, <1>10, <1>12 DEF msgs, k

(* What an instance's step does to all that Ordered speaks of. *)
LEMMA InstanceOrdered ==
    ASSUME IInv, Ordered, NEW k \in InstanceIds, step[k] # "none",
           UNCHANGED <<todo, thread>>,
           \A j \in InstanceIds :
               /\ step'[j] = "none" <=> step[j] = "none"
               /\ j # k => step'[j] = step[j],
           \/ row' = row /\ step'[k] # "done"
           \/ markMessagesExtracted(thread[k])
    PROVE  Ordered'
<1>1. \A m \in Messages : row[m] = "extracted" => row'[m] = "extracted"
  BY DEF markMessagesExtracted
<1>2. \A m \in Messages : row[m] # "absent" => row'[m] # "absent"
  BY DEF markMessagesExtracted
<1>3. BatchInOrder'
  <2>1. \A d \in Dispatchers : todo[d] \subseteq Messages
    BY DEF IInv, TypeOK
  <2> QED
    BY <1>1, <2>1 DEF Ordered, BatchInOrder, sameChat
<1>4. WholeThreads'
  <2>1. ASSUME NEW j \in InstanceIds, step'[j] = "done" PROVE \A m \in thread[j] : row'[m] = "extracted"
    <3>1. thread[j] \subseteq Messages
      BY DEF IInv, TypeOK
    <3>2. CASE j = k
      BY <2>1, <3>1, <3>2 DEF markMessagesExtracted
    <3>3. CASE j # k
      BY <1>1, <2>1, <3>1, <3>3 DEF Ordered, WholeThreads
    <3> QED
      BY <3>2, <3>3
  <2> QED
    BY <1>1, <2>1 DEF Ordered, WholeThreads, sameChat, Span
<1>5. CASE row' = row
  BY <1>3, <1>4, <1>5 DEF Ordered, StoredInOrder, ExtractedInOrder, sameChat
<1>6. CASE markMessagesExtracted(thread[k])
  <2>1. \A m \in Messages : row'[m] = IF m \in thread[k] THEN "extracted" ELSE row[m]
    BY <1>6 DEF markMessagesExtracted
  <2>2. k[1] \in Messages /\ k[2] \in Messages /\ Messages \subseteq Int
    BY ExtractAssumption DEF InstanceIds, Messages
  <2>3. ASSUME NEW m \in thread[k], NEW n \in Messages, n < m, sameChat(m, n)
        PROVE  row'[n] = "extracted"
    <3>1. m \in Messages /\ sameChat(m, k[1]) /\ k[1] <= m /\ m <= k[2]
      BY DEF Ordered, WholeThreads, Span
    <3>2. m \in Int /\ n \in Int /\ k[1] \in Int /\ k[2] \in Int
      BY <2>2, <3>1
    <3>3. sameChat(n, k[1])
      BY <2>3, <3>1 DEF sameChat
    <3>4. CASE n < k[1]
      BY <1>1, <3>3, <3>4 DEF Ordered, WholeThreads
    <3>5. CASE k[1] <= n
      <4>1. n <= k[2]
        BY <2>3, <3>2, <3>1
      <4>2. n \in thread[k]
        BY <3>3, <3>5, <4>1 DEF Ordered, WholeThreads, Span
      <4> QED
        BY <2>1, <4>2
    <3> QED
      BY <3>2, <3>4, <3>5
  <2>4. ExtractedInOrder'
    BY <1>1, <2>1, <2>3 DEF Ordered, ExtractedInOrder, sameChat
  <2>5. StoredInOrder'
    BY <1>2, <2>1, <2>3 DEF Ordered, StoredInOrder, sameChat
  <2> QED
    BY <1>3, <1>4, <2>4, <2>5 DEF Ordered
<1> QED
  BY <1>5, <1>6

(* Dispatchers start an instance with its whole thread, or drop a chat. *)
LEMMA DispatcherOrdered ==
    ASSUME IInv, Ordered, NEW d \in Dispatchers,
           List(d) \/ Dispatch(d) \/ DispatchFails(d) \/ DispatcherDies(d)
    PROVE  Ordered'
<1>1. row' = row
  BY DEF List, Dispatch, DispatchFails, DispatcherDies
<1>2. StoredInOrder' /\ ExtractedInOrder'
  BY <1>1 DEF Ordered, StoredInOrder, ExtractedInOrder, sameChat
<1>3. BatchInOrder'
  <2>1. CASE List(d)
    <3>1. todo' = [todo EXCEPT ![d] = getUnextractedMessages]
      BY <2>1 DEF List
    <3>2. ASSUME NEW m \in getUnextractedMessages, NEW n \in Messages \ getUnextractedMessages,
                 n < m, sameChat(m, n)
          PROVE  /\ row[n] = "extracted"
                 /\ \A l \in getUnextractedMessages : sameChat(l, n) => n < l
      <4>1. m \in Messages /\ row[m] = "new"
        BY DEF getUnextractedMessages
      <4>2. row[n] # "new"
        BY <3>2, BatchStarts
      <4>3. row[n] # "absent"
        BY <3>2, <4>1 DEF Ordered, StoredInOrder
      <4>4. row[n] = "extracted"
        BY <4>2, <4>3 DEF IInv, TypeOK
      <4>5. ASSUME NEW l \in getUnextractedMessages, sameChat(l, n) PROVE n < l
        <5>1. l \in Messages /\ row[l] = "new" /\ n # l
          BY DEF getUnextractedMessages
        <5>2. ~ (l < n)
          BY <4>4, <4>5, <5>1 DEF Ordered, ExtractedInOrder, sameChat
        <5>3. l \in Int /\ n \in Int
          BY <5>1, ExtractAssumption DEF Messages
        <5> QED
          BY <5>1, <5>2, <5>3
      <4> QED
        BY <4>4, <4>5
    <3>3. \A e \in Dispatchers : todo'[e] = IF e = d THEN getUnextractedMessages ELSE todo[e]
      BY <3>1 DEF IInv, TypeOK
    <3> QED
      BY <1>1, <3>2, <3>3 DEF Ordered, BatchInOrder, sameChat
  <2>2. CASE Dispatch(d) \/ DispatchFails(d)
    <3>1. todo' = [todo EXCEPT ![d] = @ \ firstThread(todo[d])]
      BY <2>2 DEF Dispatch, DispatchFails
    <3>2. \A e \in Dispatchers : todo'[e] = IF e = d THEN todo[d] \ firstThread(todo[d]) ELSE todo[e]
      BY <3>1 DEF IInv, TypeOK
    <3>3. ASSUME NEW m \in todo'[d], NEW n \in Messages \ todo'[d], sameChat(m, n)
          PROVE  n \notin todo[d]
      BY <3>2, <3>3 DEF firstThread, sameChat
    <3> QED
      BY <1>1, <3>2, <3>3 DEF Ordered, BatchInOrder, sameChat
  <2>3. CASE DispatcherDies(d)
    <3>1. \A e \in Dispatchers : todo'[e] = IF e = d THEN {} ELSE todo[e]
      BY <2>3 DEF DispatcherDies, IInv, TypeOK
    <3> QED
      BY <1>1, <3>1 DEF Ordered, BatchInOrder, sameChat
  <2> QED
    BY <2>1, <2>2, <2>3
<1>4. WholeThreads'
  <2>1. CASE UNCHANGED <<step, thread>>
    BY <1>1, <2>1 DEF Ordered, WholeThreads, sameChat, Span
  <2>2. CASE Dispatch(d) /\ ~ UNCHANGED <<step, thread>>
    <3> DEFINE msgs == firstThread(todo[d])
               k    == instanceId(msgs)
    <3>1. /\ step' = [step EXCEPT ![k] = "resolve-deal"]
          /\ thread' = [thread EXCEPT ![k] = msgs]
          /\ todo[d] # {}
      BY <2>2 DEF Dispatch
    <3>2. /\ k \in InstanceIds /\ msgs = Span(k)
          /\ \A m \in Messages : m < k[1] /\ sameChat(m, k[1]) => row[m] = "extracted"
      BY <3>1, ThreadIsRange
    <3> HIDE DEF msgs, k
    <3>3. \A j \in InstanceIds :
            /\ step'[j] = IF j = k THEN "resolve-deal" ELSE step[j]
            /\ thread'[j] = IF j = k THEN msgs ELSE thread[j]
      BY <3>1 DEF IInv, TypeOK
    <3> QED
      BY <1>1, <3>2, <3>3 DEF Ordered, WholeThreads, sameChat, Span
  <2> QED
    BY <2>1, <2>2 DEF List, DispatchFails, DispatcherDies
<1> QED
  BY <1>2, <1>3, <1>4 DEF Ordered

(* Ordered is inductive, given that a chat is stored oldest first. *)
LEMMA NextOrdered == ASSUME InOrder, IInv, Ordered, [Next]_vars PROVE Ordered'
<1>1. ASSUME NEW k \in InstanceIds, step[k] = "none"
      PROVE  ~ (Advance(k) \/ ProposeUnacknowledged(k) \/ MarkUnacknowledged(k) \/ StepFails(k))
  BY <1>1 DEF Advance, Prepare, Propose, MarkExtracted, ProposeUnacknowledged,
      MarkUnacknowledged, StepFails, Running, Steps
<1>2. ASSUME NEW k \in InstanceIds, Prepare(k) \/ Propose(k) PROVE Ordered'
  <2>1. step[k] # "none" /\ step'[k] \notin {"none", "done"} /\ UNCHANGED <<row, todo, thread>>
        /\ \A j \in InstanceIds : j # k => step'[j] = step[j]
    BY <1>2 DEF Prepare, Propose, goto, IInv, TypeOK
  <2> QED
    BY <2>1, InstanceOrdered
<1>3. ASSUME NEW k \in InstanceIds, MarkExtracted(k) PROVE Ordered'
  <2>1. /\ step[k] # "none" /\ step'[k] = "done" /\ UNCHANGED <<todo, thread>>
        /\ \A j \in InstanceIds : j # k => step'[j] = step[j]
        /\ markMessagesExtracted(thread[k])
    BY <1>3 DEF MarkExtracted, goto, IInv, TypeOK
  <2> QED
    BY <2>1, InstanceOrdered
<1>4. ASSUME NEW k \in InstanceIds,
             ProposeUnacknowledged(k) \/ MarkUnacknowledged(k) \/ StepFails(k)
      PROVE  Ordered'
  <2>1. step[k] # "none" /\ step[k] # "done"
    BY <1>4 DEF ProposeUnacknowledged, MarkUnacknowledged, StepFails, Running, Steps
  <2>2. /\ step'[k] \in {step[k], "errored"}
        /\ \A j \in InstanceIds : j # k => step'[j] = step[j]
    BY <1>4 DEF ProposeUnacknowledged, MarkUnacknowledged, StepFails, retry, IInv, TypeOK
  <2>3. UNCHANGED <<todo, thread>> /\ (row' = row \/ markMessagesExtracted(thread[k]))
    BY <1>4 DEF ProposeUnacknowledged, MarkUnacknowledged, StepFails
  <2> QED
    BY <2>1, <2>2, <2>3, InstanceOrdered
<1>5. ASSUME NEW m \in Messages, Store(m) PROVE Ordered'
  <2>1. \A n \in Messages : row'[n] = IF n = m THEN "new" ELSE row[n]
    BY <1>5 DEF Store, IInv, TypeOK
  <2>2. row[m] = "absent" /\ \A n \in Messages : n < m /\ ChatOf[n] = ChatOf[m] => row[n] # "absent"
    BY <1>5, InOrder DEF Store
  <2>3. UNCHANGED <<todo, thread, step>>
    BY <1>5 DEF Store
  <2>4. StoredInOrder'
    BY <2>1, <2>2 DEF Ordered, StoredInOrder, sameChat
  <2>5. ExtractedInOrder'
    BY <2>1, <2>2 DEF Ordered, ExtractedInOrder, StoredInOrder, sameChat
  <2>6. \A n \in Messages : row[n] = "extracted" => row'[n] = "extracted"
    BY <2>1, <2>2
  <2>7. BatchInOrder' /\ WholeThreads'
    <3>1. \A d \in Dispatchers : todo[d] \subseteq Messages
      BY DEF IInv, TypeOK
    <3>2. \A k \in InstanceIds : thread[k] \subseteq Messages
      BY DEF IInv, TypeOK
    <3> QED
      BY <2>3, <2>6, <3>1, <3>2 DEF Ordered, BatchInOrder, WholeThreads, sameChat, Span
  <2> QED
    BY <2>4, <2>5, <2>7 DEF Ordered
<1>6. CASE UNCHANGED vars
  BY <1>6 DEF vars, Ordered, StoredInOrder, ExtractedInOrder, BatchInOrder, WholeThreads, Span, sameChat
<1> QED
  BY <1>2, <1>3, <1>4, <1>5, <1>6, DispatcherOrdered DEF Next, Advance

(* A chat's threads are cut out of it one after the other: an id stands    *)
(* for all its messages from the first to the last, and when one is        *)
(* started all that is older is extracted (ORDER BY msg_date ASC).         *)
THEOREM ThreadsAreCutInOrder == ASSUME InOrder PROVE Spec => []Ordered
<1>1. Init => Ordered
  BY DEF Init, Ordered, StoredInOrder, ExtractedInOrder, BatchInOrder, WholeThreads
<1>2. IInv /\ Ordered /\ [Next]_vars => Ordered'
  BY InOrder, NextOrdered
<1> QED
  BY <1>1, <1>2, Invariance, PTL DEF Spec

(* No workflow has used up the attempts of a step. *)
NoneErrored == \A k \in InstanceIds : step[k] # "errored"

(* What the comment on a duplicate id says is true while no workflow has   *)
(* given up: the messages that a dispatcher skips are extracted, or in an  *)
(* instance that still runs (dispatch).                                    *)
THEOREM SkipsAreSafe == ASSUME InOrder PROVE Spec /\ []NoneErrored => SkipIsSafe
<1> DEFINE Safe(d) ==
        \A m \in firstThread(todo[d]) :
            \/ row[m] = "extracted"
            \/ \E k \in InstanceIds : Running(k) /\ m \in thread[k]
<1>1. ASSUME IInv, Ordered, NoneErrored, NEW d \in Dispatchers, Dispatch(d), UNCHANGED step
      PROVE  Safe(d)
  <2> DEFINE msgs == firstThread(todo[d])
             k    == instanceId(msgs)
  <2>1. k \in InstanceIds /\ msgs = Span(k)
    BY <1>1, ThreadIsRange DEF Dispatch
  <2>2. step[k] # "none"
    <3>1. ASSUME step[k] = "none" PROVE step'[k] = "resolve-deal"
      <4>1. step' = [step EXCEPT ![k] = "resolve-deal"]
        BY <1>1, <3>1 DEF Dispatch
      <4> HIDE DEF k
      <4> QED
        BY <1>1, <2>1, <4>1 DEF IInv, TypeOK
    <3> HIDE DEF k
    <3> QED
      BY <1>1, <3>1
  <2> HIDE DEF msgs, k
  <2>3. thread[k] = msgs
    BY <1>1, <2>1, <2>2 DEF Ordered, WholeThreads
  <2>4. CASE step[k] = "done"
    BY <1>1, <2>1, <2>3, <2>4 DEF Ordered, WholeThreads, msgs
  <2>5. CASE Running(k)
    BY <2>1, <2>3, <2>5 DEF msgs
  <2> QED
    BY <1>1, <2>1, <2>2, <2>4, <2>5 DEF IInv, TypeOK, NoneErrored, Running
<1> HIDE DEF Safe
<1>2. IInv /\ Ordered /\ NoneErrored /\ [Next]_vars =>
          [\A d \in Dispatchers : Dispatch(d) /\ UNCHANGED step => Safe(d)]_vars
  BY <1>1
<1> QED
  BY <1>2, Invariance, ThreadsAreCutInOrder, InOrder, PTL DEF Spec, SkipIsSafe, Safe

(* Each failed attempt is a fault. *)
TriesAreFaults ==
    \A k \in InstanceIds : tries[k] <= faults /\ (step[k] = "errored" => tries[k] = MaxTries)

(* With fewer faults than attempts no workflow gives up, so then skips are *)
(* safe without further ado.                                               *)
THEOREM FewFaultsSkipSafely ==
    ASSUME InOrder, MaxFaults < MaxTries PROVE Spec => SkipIsSafe
<1>1. Init => TriesAreFaults
  BY DEF Init, TriesAreFaults
<1>2. IInv /\ TriesAreFaults /\ [Next]_vars => TriesAreFaults'
  <2> SUFFICES ASSUME IInv, TriesAreFaults, [Next]_vars PROVE TriesAreFaults'
    OBVIOUS
  <2>0. faults \in Nat /\ \A k \in InstanceIds : tries[k] \in Nat
    BY ExtractAssumption DEF IInv, TypeOK
  <2>1. ASSUME NEW k \in InstanceIds, retry(k), faults' = faults + 1, Running(k) PROVE TriesAreFaults'
    <3>1. \A j \in InstanceIds :
            /\ tries'[j] = IF j = k THEN tries[k] + 1 ELSE tries[j]
            /\ step'[j] = IF j = k /\ tries[k] + 1 = MaxTries THEN "errored" ELSE step[j]
      BY <2>1 DEF retry, IInv, TypeOK
    <3>2. step[k] # "errored"
      BY <2>1 DEF Running, Steps
    <3> QED
      BY <2>0, <2>1, <3>1, <3>2 DEF TriesAreFaults
  <2>2. ASSUME NEW k \in InstanceIds, NEW s \in Steps \cup {"done"}, goto(k, s), faults' = faults
        PROVE  TriesAreFaults'
    <3>1. \A j \in InstanceIds :
            /\ tries'[j] = IF j = k THEN 0 ELSE tries[j]
            /\ step'[j] = IF j = k THEN s ELSE step[j]
      BY <2>2 DEF goto, IInv, TypeOK
    <3>2. s # "errored"
      BY DEF Steps
    <3> QED
      BY <2>0, <2>2, <3>1, <3>2 DEF TriesAreFaults
  <2>3. ASSUME tries' = tries, faults' >= faults, faults' \in Nat,
               \A j \in InstanceIds : step'[j] = "errored" => step[j] = "errored"
        PROVE  TriesAreFaults'
    BY <2>0, <2>3 DEF TriesAreFaults
  <2>4. ASSUME NEW k \in InstanceIds,
               ProposeUnacknowledged(k) \/ MarkUnacknowledged(k) \/ StepFails(k)
        PROVE  TriesAreFaults'
    BY <2>1, <2>4 DEF ProposeUnacknowledged, MarkUnacknowledged, StepFails, fault, Running, Steps
  <2>5. ASSUME NEW k \in InstanceIds, Advance(k) PROVE TriesAreFaults'
    BY <2>2, <2>5 DEF Advance, Prepare, Propose, MarkExtracted, Steps
  <2>6. ASSUME NEW d \in Dispatchers, List(d) \/ DispatchFails(d) \/ DispatcherDies(d)
        PROVE  TriesAreFaults'
    BY <2>0, <2>3, <2>6 DEF List, DispatchFails, DispatcherDies, fault
  <2>7. ASSUME NEW d \in Dispatchers, Dispatch(d) PROVE TriesAreFaults'
    <3>1. \/ step' = step
          \/ \E k : step' = [step EXCEPT ![k] = "resolve-deal"]
      BY <2>7 DEF Dispatch
    <3>2. \A j \in InstanceIds : step'[j] = "errored" => step[j] = "errored"
      BY <3>1 DEF IInv, TypeOK
    <3>3. tries' = tries /\ faults' = faults
      BY <2>7 DEF Dispatch
    <3> QED
      BY <2>0, <2>3, <3>2, <3>3
  <2>8. ASSUME NEW m \in Messages, Store(m) PROVE TriesAreFaults'
    BY <2>0, <2>3, <2>8 DEF Store
  <2>9. CASE UNCHANGED vars
    BY <2>9 DEF vars, TriesAreFaults
  <2> QED
    BY <2>4, <2>5, <2>6, <2>7, <2>8, <2>9 DEF Next
<1>3. IInv /\ TriesAreFaults => NoneErrored
  <2> SUFFICES ASSUME IInv, TriesAreFaults, NEW k \in InstanceIds, step[k] = "errored" PROVE FALSE
    BY DEF NoneErrored
  <2>1. MaxTries <= faults /\ faults <= MaxFaults /\ faults \in Nat
    BY ExtractAssumption DEF TriesAreFaults, IInv, TypeOK
  <2> QED
    BY <2>1, MaxFaults < MaxTries, ExtractAssumption
<1> QED
  BY <1>1, <1>2, <1>3, Invariance, SkipsAreSafe, InOrder, PTL DEF Spec

-----------------------------------------------------------------------------
(* When a batch is listed only after the last one is through               *)

(* An instance that may insert, or has inserted, a proposal. *)
Alive(k) == Running(k) \/ proposals[k] > 0

(* No dispatcher is at a batch, and what was proposed is marked extracted. *)
Through ==
    /\ \A d \in Dispatchers : todo[d] = {}
    /\ \A k \in InstanceIds : Alive(k) => \A m \in thread[k] : row[m] = "extracted"

(* A batch is listed only then. *)
ListsInTurn == \A d \in Dispatchers : List(d) => Through

(* Then no message is in two places: two instances, or an instance and a   *)
(* batch.                                                                  *)
Apart ==
    /\ \A d, e \in Dispatchers : todo[d] # {} /\ todo[e] # {} => d = e
    /\ \A d \in Dispatchers, k \in InstanceIds : Alive(k) => todo[d] \cap thread[k] = {}
    /\ \A j, k \in InstanceIds : Alive(j) /\ Alive(k) /\ j # k => thread[j] \cap thread[k] = {}

(* A batch taken when the last one is through touches nothing that lives,  *)
(* and every other step of a dispatcher or an instance keeps it that way.  *)
LEMMA NextApart ==
    ASSUME IInv, Apart, [Next]_vars, ListsInTurn
    PROVE  Apart'
<1>1. ASSUME NEW d \in Dispatchers, List(d) PROVE Apart'
  <2>1. Through /\ UNCHANGED <<step, thread, proposals>>
    BY <1>1 DEF List, ListsInTurn
  <2>2. \A e \in Dispatchers : todo'[e] = IF e = d THEN getUnextractedMessages ELSE {}
    BY <1>1, <2>1 DEF List, Through, IInv, TypeOK
  <2>3. \A k \in InstanceIds : Alive(k)' => Alive(k) /\ thread'[k] = thread[k]
    BY <2>1 DEF Alive, Running
  <2>4. \A m \in getUnextractedMessages : row[m] = "new"
    BY DEF getUnextractedMessages
  <2>5. \A k \in InstanceIds : Alive(k) => getUnextractedMessages \cap thread[k] = {}
    BY <2>1, <2>4 DEF Through
  <2> QED
    BY <2>2, <2>3, <2>5 DEF Apart
<1>2. ASSUME NEW d \in Dispatchers, Dispatch(d) PROVE Apart'
  <2> DEFINE msgs == firstThread(todo[d])
             k == instanceId(msgs)
  <2>1. /\ todo[d] # {} /\ proposals' = proposals /\ msgs \subseteq todo[d]
        /\ \A e \in Dispatchers : todo'[e] = IF e = d THEN todo[d] \ msgs ELSE todo[e]
    BY <1>2 DEF Dispatch, firstThread, IInv, TypeOK
  <2>2. CASE UNCHANGED <<step, thread>>
    <3>1. \A j \in InstanceIds : Alive(j)' <=> Alive(j)
      BY <2>1, <2>2 DEF Alive, Running
    <3> HIDE DEF msgs
    <3> QED
      BY <2>1, <2>2, <3>1 DEF Apart
  <2>3. CASE /\ step[k] = "none"
             /\ step' = [step EXCEPT ![k] = "resolve-deal"]
             /\ thread' = [thread EXCEPT ![k] = msgs]
    <3> HIDE DEF msgs, k
    <3>1. \A j \in InstanceIds :
            /\ thread'[j] = IF j = k THEN msgs ELSE thread[j]
            /\ j # k => (Alive(j)' <=> Alive(j))
      BY <2>1, <2>3 DEF Alive, Running, IInv, TypeOK
    <3>2. \A e \in Dispatchers : e # d => todo[e] = {}
      BY <2>1 DEF Apart
    <3>3. \A e \in Dispatchers, j \in InstanceIds : Alive(j)' => todo'[e] \cap thread'[j] = {}
      BY <2>1, <3>1, <3>2 DEF Apart
    <3>4. \A j \in InstanceIds : j # k /\ Alive(j)' => thread'[j] \cap msgs = {}
      BY <2>1, <3>1 DEF Apart
    <3>5. \A i, j \in InstanceIds : Alive(i)' /\ Alive(j)' /\ i # j => thread'[i] \cap thread'[j] = {}
      BY <3>1, <3>4 DEF Apart
    <3>6. \A e, f \in Dispatchers : todo'[e] # {} /\ todo'[f] # {} => e = f
      BY <2>1, <3>2
    <3> QED
      BY <3>3, <3>5, <3>6 DEF Apart
  <2> QED
    BY <1>2, <2>2, <2>3 DEF Dispatch
\* Other steps take no message up, and only what runs inserts.
<1>3. ASSUME \A d \in Dispatchers : todo'[d] \subseteq todo[d],
             UNCHANGED thread,
             \A k \in InstanceIds : Alive(k)' => Alive(k)
      PROVE  Apart'
  BY <1>3 DEF Apart
<1>4. ASSUME NEW d \in Dispatchers, DispatchFails(d) \/ DispatcherDies(d) PROVE Apart'
  <2>1. UNCHANGED <<step, thread, proposals>>
    BY <1>4 DEF DispatchFails, DispatcherDies
  <2>2. \A e \in Dispatchers : todo'[e] \subseteq todo[e]
    BY <1>4 DEF DispatchFails, DispatcherDies, IInv, TypeOK
  <2> QED
    BY <1>3, <2>1, <2>2 DEF Alive, Running
<1>5. ASSUME NEW k \in InstanceIds,
             Advance(k) \/ ProposeUnacknowledged(k) \/ MarkUnacknowledged(k) \/ StepFails(k)
      PROVE  Apart'
  <2>1. Running(k) /\ UNCHANGED <<todo, thread>>
    BY <1>5 DEF Advance, Prepare, Propose, MarkExtracted, ProposeUnacknowledged,
        MarkUnacknowledged, StepFails, Running, Steps
  <2>2. \A j \in InstanceIds : j # k => step'[j] = step[j] /\ proposals'[j] = proposals[j]
    BY <1>5 DEF Advance, Prepare, Propose, MarkExtracted, ProposeUnacknowledged,
        MarkUnacknowledged, StepFails, goto, retry, insertProposal, IInv, TypeOK
  <2>3. \A j \in InstanceIds : Alive(j)' => Alive(j)
    BY <2>1, <2>2 DEF Alive, Running
  <2> QED
    BY <1>3, <2>1, <2>3
<1>6. ASSUME NEW m \in Messages, Store(m) PROVE Apart'
  BY <1>3, <1>6 DEF Store, Alive, Running
<1>7. CASE UNCHANGED vars
  BY <1>3, <1>7 DEF vars, Alive, Running
<1> QED
  BY <1>1, <1>2, <1>4, <1>5, <1>6, <1>7 DEF Next

(* MessageProposedOnce, which overlapping cron runs violate, holds when a  *)
(* batch is listed only after what the last one started is through, and no *)
(* reply to an insert is lost: it is the overlap that puts a message into  *)
(* two proposals, and nothing else (runOnce, README.md:102).               *)
THEOREM OneBatchAtATimeProposesOnce ==
    ASSUME "lostReply" \notin FaultKinds
    PROVE  Spec /\ [][ListsInTurn]_vars => []MessageProposedOnce
<1> DEFINE Acknowledged == unacked = {}
<1>1. Init => Apart /\ Acknowledged
  BY DEF Init, Apart
<1>2. IInv /\ Apart /\ Acknowledged /\ [Next]_vars /\ [ListsInTurn]_vars
          => Apart' /\ Acknowledged'
  <2> SUFFICES ASSUME IInv, Apart, Acknowledged, [Next]_vars,
                      [ListsInTurn]_vars
               PROVE  Apart' /\ Acknowledged'
    OBVIOUS
  <2>1. Acknowledged'
    BY DEF Next, List, Dispatch, DispatchFails, DispatcherDies, Advance, Prepare, Propose,
        MarkExtracted, ProposeUnacknowledged, MarkUnacknowledged, StepFails, Store, fault, vars
  <2>2. CASE UNCHANGED vars
    BY <2>1, <2>2 DEF vars, Apart, Alive, Running
  <2>3. CASE ListsInTurn
    BY <2>1, <2>3, NextApart
  <2> QED
    BY <2>1, <2>2, <2>3
<1>3. IInv /\ Apart /\ Acknowledged /\ ThreadProposedOnce => MessageProposedOnce
  <2> SUFFICES ASSUME IInv, Apart, Acknowledged, ThreadProposedOnce,
                      NEW j \in InstanceIds, NEW k \in InstanceIds,
                      thread[j] \cap thread[k] # {}, proposals[j] > 0, proposals[k] > 0
               PROVE  j = k /\ proposals[k] = 1
    BY DEF MessageProposedOnce
  <2>1. j = k
    BY DEF Apart, Alive
  <2>2. proposals[k] \in Nat /\ ~ (proposals[k] > 1)
    BY ExtractAssumption DEF ThreadProposedOnce, IInv, TypeOK
  <2> QED
    BY <2>1, <2>2
<1> HIDE DEF Acknowledged
<1> QED
  BY <1>1, <1>2, <1>3, Invariance, ThreadsAreProposedOnce, PTL DEF Spec

=============================================================================
