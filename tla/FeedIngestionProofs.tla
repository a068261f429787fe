------------------------- MODULE FeedIngestionProofs -------------------------
(***************************************************************************)
(* Theorems about FeedIngestion, for any number of requests, runs, feeds,  *)
(* events and transactions, and whatever is generated from the seeds.      *)
(***************************************************************************)
EXTENDS FeedIngestion, Extremes, TLAPS

-----------------------------------------------------------------------------
(* The inductive invariant. *)

\* Where a request is: what its step has already established.
Placed(r) ==
  /\ pc[r] # "idle" => call[r] \in Calls
  /\ pc[r] \in {"idle", "begin", "lock", "done"} => work[r] = NoWork
  /\ pc[r] \in {"event", "write"} <=> open[r] # None
  /\ pc[r] \in {"insert", "event", "write"} => plan[r] # <<>>
  /\ pc[r] = "open" /\ plan[r] = <<>> => answer[r] # None
  /\ pc[r] = "write" => left[r] # <<>> /\ Head(left[r]).key \in Keys

\* Everything a transaction has written is of the run it was called for.
OfItsRun(r) ==
  /\ \A b \in work[r].batches : b.run = call[r].run
  /\ \A t \in work[r].transactions : t.run = call[r].run
  /\ open[r] # None => open[r].run = call[r].run

\* The counts of a batch with n events still to count.
Tally(b, n) ==
  /\ b.received + b.rejected + n = b.expected
  /\ b.expected > 0
  /\ b.received > 0 <=> Has(b, "normalized")
  /\ b.rejected > 0 <=> Has(b, "rejected")

\* At the write of a transaction its event is recorded and counted already.
StillToCount(r) == IF pc[r] = "write" THEN Len(left[r]) - 1 ELSE Len(left[r])

\* A batch that is closed says what its evidence shows.
Told(b) ==
  /\ Tally(b, 0)
  /\ b.status = (IF b.rejected = b.expected THEN "rejected" ELSE "normalized")
  /\ b.health = Health(b)

Counting(r) ==
  /\ \A b \in work[r].batches : Told(b)
  /\ open[r] # None => Tally(open[r], StillToCount(r))

\* The references of a transaction, and the one it is about to insert.
RefsOfItsOwn(r) ==
  /\ \A b, c \in work[r].batches : b.ref = c.ref => b = c
  /\ open[r] # None => \A b \in work[r].batches : b.ref # open[r].ref
  /\ pc[r] = "insert" => Head(plan[r]).ref \notin RefsHeld(r)

\* The references uq_batch_provider_ref keeps apart.
RefsApart ==
  /\ \A b, c \in batches : b.ref = c.ref => b = c
  /\ \A r \in Requests : RefsOfItsOwn(r)
  /\ \A r \in Requests : \A ref \in RefsHeld(r) :
       /\ \A b \in batches : b.ref # ref
       /\ \A q \in Requests \ {r} : ref \notin RefsHeld(q)

\* The keys uq_txn_provider_ref keeps apart.
KeysApart ==
  /\ \A t, u \in transactions : t.key = u.key => t = u
  /\ \A r \in Requests : \A t, u \in work[r].transactions : t.key = u.key => t = u
  /\ \A r \in Requests : \A key \in KeysHeld(r) :
       /\ \A t \in transactions : t.key # key
       /\ \A q \in Requests \ {r} : key \notin KeysHeld(q)

AcceptedOf(S) == UNION {Accepted(b) : b \in S}

\* The transactions a request has accepted and, but for the one under way, seen
\* in the ledger or written.
AcceptedSoFar(r) ==
  AcceptedOf(work[r].batches)
    \cup (IF pc[r] = "event" THEN Accepted(open[r])
          ELSE IF pc[r] = "write" THEN Accepted(open[r]) \ {Head(left[r]).key}
          ELSE {})

Delivering(r) ==
  /\ KeysHeld(r) \subseteq AcceptedSoFar(r)
  /\ AcceptedSoFar(r) \subseteq KeysSeen(r)
  /\ pc[r] = "write" => /\ Head(left[r]).key \notin KeysHeld(r)
                        /\ Head(left[r]).key \in Accepted(open[r])

\* The response under way is that of a batch the transaction sees.
Answering(r) ==
  /\ answer[r] # None => \E b \in BatchesSeen(r) : answer[r] = AnswerFor(b)
  /\ reply[r] # None /\ reply[r].code = "ok" =>
       \E b \in batches : reply[r].answer = AnswerFor(b)

IInv ==
  /\ TypeOK
  /\ \A r \in Requests : Placed(r)
  /\ \A r \in Requests : OfItsRun(r)
  /\ \A r \in Requests : Counting(r)
  /\ \A b \in batches : Told(b)
  /\ RefsApart
  /\ KeysApart
  /\ \A r \in Requests : Delivering(r)
  /\ LedgerIsWhatWasAccepted
  /\ \A r \in Requests : Answering(r)

-----------------------------------------------------------------------------
(* Lemmas about the operators the steps are made of. *)

\* The fields of a call have the types CallType gives them.
LEMMA CallFields ==
  ASSUME NEW c \in Calls
  PROVE  /\ c.run \in Runs
         /\ c.kind \in {"ingest", "create", "reset"}
         /\ c.kind = "ingest" => c.delivery \in Delivery
  BY CallsAssumption DEF CallType

\* What is generated for a run is a sequence of deliveries, and not empty.
LEMMA GenerationType ==
  ASSUME NEW run \in Runs, NEW enabled \in SUBSET Faults, NEW suffix \in Runs \cup Nat
  PROVE  Generation(run, enabled, suffix) \in Seq(Delivery) \ {<<>>}
  <1> DEFINE made == Generated[SeedOf[run]][enabled]
             Made == [index : Nat, events : Seq(Event) \ {<<>>}]
             ref(i) == [source |-> SeedOf[run], index |-> made[i].index, suffix |-> suffix]
             delivery(i) == [ref |-> ref(i), events |-> made[i].events]
  <1>1. SeedOf[run] \in Seeds
    BY DEF Seeds
  <1>2. made \in Seq(Made) /\ made # <<>>
    <2>1. Generated[SeedOf[run]] \in [SUBSET Faults -> Seq(Made) \ {<<>>}]
      BY <1>1, GenerationAssumption
    <2> QED
      BY <2>1
  <1>3. Generation(run, enabled, suffix) = [i \in DOMAIN made |-> delivery(i)]
    BY DEF Generation
  <1> HIDE DEF made, Made
  <1>4. Len(made) \in Nat /\ Len(made) # 0 /\ DOMAIN made = 1..Len(made)
    BY <1>2
  <1>5. ASSUME NEW i \in 1..Len(made)
        PROVE  delivery(i) \in Delivery
    <2>1. made[i] \in Made
      BY <1>2, <1>4
    <2>2. made[i].index \in Nat /\ made[i].events \in Seq(Event) \ {<<>>}
      BY <2>1 DEF Made
    <2>3. ref(i) \in Ref
      BY <1>1, <2>2 DEF Ref
    <2> HIDE DEF ref
    <2> QED
      BY <2>2, <2>3 DEF Delivery
  <1> HIDE DEF delivery
  <1>6. [i \in 1..Len(made) |-> delivery(i)] \in Seq(Delivery)
    BY <1>4, <1>5
  <1>7. [i \in 1..Len(made) |-> delivery(i)] # <<>>
    BY <1>4
  <1> QED
    BY <1>3, <1>4, <1>6, <1>7

\* The first of a sequence that is not empty, and the others.
LEMMA HeadAndTail ==
  ASSUME NEW S, NEW s \in Seq(S), s # <<>>
  PROVE  Head(s) \in S /\ Tail(s) \in Seq(S) /\ Len(Tail(s)) = Len(s) - 1 /\ Len(s) \in Nat
  OBVIOUS

\* A step for r: a failure or one of the other actions.
Acts(r) ==
  \/ \E c \in Calls : Start(r, c)
  \/ BeginIngest(r) \/ CreateRun(r) \/ ReadConfig(r) \/ ResetRun(r)
  \/ ReplayBatch(r) \/ DecideToIngest(r) \/ InsertBatch(r)
  \/ DuplicateEvent(r) \/ RejectEvent(r) \/ RecordEvent(r) \/ DecideToWrite(r)
  \/ WriteTransaction(r) \/ CloseBatch(r) \/ Finish(r)
  \/ \E code \in Codes \ {"ok"} : pc[r] # "idle" /\ Fail(r, code)

\* Every step is one for a request, a fault injected or lifted, or a stutter.
LEMMA NextCases ==
  ASSUME [Next]_vars
  PROVE  \/ \E r \in Requests : Acts(r)
         \/ \E run \in Runs, f \in Faults : SetFault(run, f)
         \/ UNCHANGED vars
  <1>1. ASSUME NEW r \in Requests, RunUnknown(r)
        PROVE  pc[r] # "idle" /\ "not_found" \in Codes \ {"ok"} /\ Fail(r, "not_found")
    BY <1>1 DEF RunUnknown, Codes
  <1>2. ASSUME NEW r \in Requests, InsertBatchRefused(r) \/ EventRaises(r) \/ WriteRefused(r)
        PROVE  /\ pc[r] # "idle" /\ "internal_error" \in Codes \ {"ok"}
               /\ Fail(r, "internal_error")
    BY <1>2 DEF InsertBatchRefused, EventRaises, NewEvent, WriteRefused, Codes
  <1>3. ASSUME NEW r \in Requests, DeadlockVictim(r)
        PROVE  /\ pc[r] # "idle" /\ "internal_error" \in Codes \ {"ok"}
               /\ Fail(r, "internal_error")
    <2>1. PICK S \in SUBSET Requests : r \in S /\ WaitInACircle(S)
      BY <1>3 DEF DeadlockVictim
    <2>2. \E q \in S \ {r} : WaitsFor(r, q)
      BY <2>1 DEF WaitInACircle
    <2>3. pc[r] # "idle"
      BY <2>2 DEF WaitsFor
    <2> QED
      BY <1>3, <2>3 DEF DeadlockVictim, Codes
  <1>4. ASSUME NEW r \in Requests, Abort(r)
        PROVE  pc[r] # "idle" /\ "lost" \in Codes \ {"ok"} /\ Fail(r, "lost")
    BY <1>4 DEF Abort, InFlight, Steps, Codes
  <1>5. ASSUME NEW r \in Requests, Serve(r)
        PROVE  Acts(r)
    BY <1>1, <1>2, <1>3, <1>5, Zenon DEF Serve, Acts
  <1>6. ASSUME NEW r \in Requests, (\E c \in Calls : Start(r, c)) \/ Abort(r)
        PROVE  Acts(r)
    BY <1>4, <1>6, Zenon DEF Acts
  <1> QED
    BY <1>5, <1>6, Zenon DEF Next, Quiescent

\* Accepted by both of two sets of batches.
LEMMA AcceptedOfUnion ==
  ASSUME NEW S, NEW T
  PROVE  AcceptedOf(S \cup T) = AcceptedOf(S) \cup AcceptedOf(T)
  BY DEF AcceptedOf

\* Accepted by none.
LEMMA AcceptedOfNone == AcceptedOf({}) = {}
  BY DEF AcceptedOf

\* Accepted by one batch.
LEMMA AcceptedOfOne ==
  ASSUME NEW b
  PROVE  AcceptedOf({b}) = Accepted(b)
  BY DEF AcceptedOf

\* What counting an event changes of a batch, and what it keeps.
LEMMA CountedFields ==
  ASSUME NEW b \in Batch, NEW status \in Statuses
  PROVE  LET c == Counted(b, status)
         IN /\ c \in Batch
            /\ c.ref = b.ref /\ c.run = b.run /\ c.by = b.by /\ c.expected = b.expected
            /\ c.events = b.events
            /\ c.received = b.received + (IF status = "rejected" THEN 0 ELSE 1)
            /\ c.rejected = b.rejected + (IF status = "rejected" THEN 1 ELSE 0)
  BY DEF Counted, Batch, Statuses

\* What recording an event changes of a batch besides the count.
LEMMA RecordedFields ==
  ASSUME NEW b \in Batch, NEW event \in Event, NEW status \in Statuses
  PROVE  LET c == Recorded(b, event, status)
         IN /\ c \in Batch
            /\ c.ref = b.ref /\ c.run = b.run /\ c.by = b.by /\ c.expected = b.expected
            /\ c.events = b.events
                 \cup {[ref |-> event.ref, key |-> event.key, status |-> status]}
            /\ c.received = b.received + (IF status = "rejected" THEN 0 ELSE 1)
            /\ c.rejected = b.rejected + (IF status = "rejected" THEN 1 ELSE 0)
  <1> DEFINE d == Counted(b, status)
             row == [ref |-> event.ref, key |-> event.key, status |-> status]
  <1>1. row \in EventRow
    BY DEF Event, EventRow
  <1>2. /\ d \in Batch
        /\ d.ref = b.ref /\ d.run = b.run /\ d.by = b.by /\ d.expected = b.expected
        /\ d.events = b.events
        /\ d.received = b.received + (IF status = "rejected" THEN 0 ELSE 1)
        /\ d.rejected = b.rejected + (IF status = "rejected" THEN 1 ELSE 0)
    BY CountedFields
  <1>3. Recorded(b, event, status) = [d EXCEPT !.events = @ \cup {row}]
    BY DEF Recorded
  <1> HIDE DEF d, row
  <1>4. d.events \cup {row} \in SUBSET EventRow
    BY <1>1, <1>2 DEF Batch
  <1>5. [d EXCEPT !.events = @ \cup {row}] \in Batch
    BY <1>2, <1>4 DEF Batch
  <1> QED
    BY <1>2, <1>3, <1>5 DEF Batch, row

\* The rows already recorded under the reference of the next event.
LEMMA EarlierRowStatus ==
  ASSUME NEW r \in Requests, open[r] \in Batch, NEW row \in EarlierRows(r)
  PROVE  row \in open[r].events /\ row.status \in Statuses
  BY DEF EarlierRows, Batch, EventRow

\* What closing a batch changes of it, and the response to it.
LEMMA ClosedFields ==
  ASSUME NEW b \in Batch
  PROVE  LET c == Closed(b)
         IN /\ c \in Batch
            /\ c.ref = b.ref /\ c.run = b.run /\ c.by = b.by /\ c.expected = b.expected
            /\ c.events = b.events /\ c.received = b.received /\ c.rejected = b.rejected
            /\ c.status = (IF b.rejected = b.expected THEN "rejected" ELSE "normalized")
            /\ c.status \in Statuses
            /\ c.health = Health(c)
  BY DEF Closed, Health, Batch, Statuses

\* The response to a batch that is closed.
LEMMA AnswerType ==
  ASSUME NEW b \in Batch, b.status \in Statuses
  PROVE  AnswerFor(b) \in Answer
  BY DEF AnswerFor, Answer, Batch

\* The end of a transaction keeps what the process holds well typed.
LEMMA AnsweredType ==
  ASSUME TypeOK, NEW r \in Requests, NEW code \in Codes,
         NEW response \in Answer \cup {None}, Answered(r, code, response)
  PROVE  /\ pc' \in [Requests -> Steps \cup {"idle", "done"}]
         /\ call' \in [Requests -> Calls \cup {None}]
         /\ resets' \in [Requests -> Nat]
         /\ plan' \in [Requests -> Seq(Delivery)]
         /\ left' \in [Requests -> Seq(Event)]
         /\ open' \in [Requests -> Batch \cup {None}]
         /\ work' \in [Requests -> Work]
         /\ answer' \in [Requests -> Answer \cup {None}]
         /\ reply' \in [Requests -> Reply \cup {None}]
  <1>1. [code |-> code, answer |-> response] \in Reply
    BY DEF Reply
  <1>2. NoWork \in Work
    BY DEF NoWork, Work
  <1> DEFINE rep == [code |-> code, answer |-> response]
  <1> HIDE DEF rep
  <1>3. rep \in Reply
    BY <1>1 DEF rep
  <1>4. reply' = [reply EXCEPT ![r] = rep]
    BY DEF Answered, rep
  <1> QED
    BY <1>2, <1>3, <1>4 DEF Answered, TypeOK

-----------------------------------------------------------------------------
(* What the steps do, for the proofs below. *)

\* A batch that a transaction sees is a batch, and closed.
LEMMA SeenBatchType ==
  ASSUME TypeOK, NEW r \in Requests, \A b \in batches : Told(b), Counting(r),
         NEW b \in BatchesSeen(r)
  PROVE  b \in Batch /\ b.status \in Statuses /\ Told(b)
  BY DEF BatchesSeen, TypeOK, Work, Counting, Told, Statuses

\* b is the batch a with one event more counted, of that status.
OneMore(a, b, status) ==
  /\ b.ref = a.ref /\ b.run = a.run /\ b.by = a.by /\ b.expected = a.expected
  /\ b.received = a.received + (IF status = "rejected" THEN 0 ELSE 1)
  /\ b.rejected = a.rejected + (IF status = "rejected" THEN 1 ELSE 0)
  /\ \A s \in Statuses : Has(b, s) <=> (Has(a, s) \/ s = status)

\* Recording an event counts it and keeps it as evidence.
LEMMA RecordedIsOneMore ==
  ASSUME NEW b \in Batch, NEW event \in Event, NEW status \in Statuses
  PROVE  LET c == Recorded(b, event, status)
         IN /\ c \in Batch /\ OneMore(b, c, status)
            /\ status = "rejected" => Accepted(c) = Accepted(b)
            /\ status = "normalized" => Accepted(c) = Accepted(b) \cup ({event.key} \ {None})
  <1> DEFINE c == Recorded(b, event, status)
             row == [ref |-> event.ref, key |-> event.key, status |-> status]
  <1>1. c \in Batch /\ c.events = b.events \cup {row}
    BY RecordedFields
  <1>2. /\ c.ref = b.ref /\ c.run = b.run /\ c.by = b.by /\ c.expected = b.expected
        /\ c.received = b.received + (IF status = "rejected" THEN 0 ELSE 1)
        /\ c.rejected = b.rejected + (IF status = "rejected" THEN 1 ELSE 0)
    BY RecordedFields
  <1>3. row.status = status /\ row.key = event.key
    OBVIOUS
  <1> HIDE DEF c, row
  <1>4. \A s \in Statuses : Has(c, s) <=> (Has(b, s) \/ s = status)
    BY <1>1, <1>3 DEF Has
  <1>5. status = "rejected" => Accepted(c) = Accepted(b)
    BY <1>1, <1>3 DEF Accepted
  <1>6. status = "normalized" => Accepted(c) = Accepted(b) \cup ({event.key} \ {None})
    BY <1>1, <1>3 DEF Accepted
  <1> QED
    BY <1>1, <1>2, <1>4, <1>5, <1>6 DEF OneMore, c

\* The steps that count an event.  If its transaction is not yet there, the
\* write of it comes next; otherwise it is the turn of the next event.
LEMMA EventSteps ==
  ASSUME TypeOK, \A r \in Requests : Placed(r), NEW r \in Requests,
         DuplicateEvent(r) \/ RejectEvent(r) \/ RecordEvent(r) \/ DecideToWrite(r)
  PROVE  /\ pc[r] = "event" /\ open[r] \in Batch /\ open[r] # None /\ left[r] # <<>>
         /\ UNCHANGED <<tables, call, resets, plan, work, answer, reply>>
         /\ \E status \in Statuses, b \in Batch :
              /\ open' = [open EXCEPT ![r] = b]
              /\ OneMore(open[r], b, status)
              /\ \/ /\ pc' = pc /\ left' = [left EXCEPT ![r] = Tail(left[r])]
                    /\ Accepted(open[r]) \subseteq Accepted(b)
                    /\ Accepted(b) \subseteq Accepted(open[r]) \cup KeysSeen(r)
                 \/ /\ pc' = [pc EXCEPT ![r] = "write"] /\ left' = left
                    /\ Head(left[r]).key \in Keys \ KeysSeen(r)
                    /\ Accepted(b) = Accepted(open[r]) \cup {Head(left[r]).key}
  <1> DEFINE event == Head(left[r])
  <1>1. pc[r] = "event" /\ left[r] # <<>>
    BY DEF DuplicateEvent, RejectEvent, RecordEvent, DecideToWrite, NewEvent
  <1>2. open[r] \in Batch /\ open[r] # None
    BY <1>1 DEF Placed, TypeOK
  <1>3. event \in Event
    BY <1>1, HeadAndTail DEF TypeOK
  <1>4. event.key \in Keys \cup {None}
    BY <1>3 DEF Event
  <1>5. UNCHANGED <<tables, call, resets, plan, work, answer, reply>>
    BY DEF DuplicateEvent, RejectEvent, RecordEvent, DecideToWrite
  <1>6. CASE DuplicateEvent(r)
    <2>1. PICK row \in EarlierRows(r) : open' = [open EXCEPT ![r] = Counted(@, row.status)]
      BY <1>6 DEF DuplicateEvent
    <2> DEFINE c == Counted(open[r], row.status)
    <2>2. row \in open[r].events /\ row.status \in Statuses
      BY <1>2, EarlierRowStatus
    <2>3. /\ c \in Batch /\ c.events = open[r].events
          /\ c.ref = open[r].ref /\ c.run = open[r].run /\ c.by = open[r].by
          /\ c.expected = open[r].expected
          /\ c.received = open[r].received + (IF row.status = "rejected" THEN 0 ELSE 1)
          /\ c.rejected = open[r].rejected + (IF row.status = "rejected" THEN 1 ELSE 0)
      BY <1>2, <2>2, CountedFields
    <2>4. open' = [open EXCEPT ![r] = c]
      BY <2>1
    <2> HIDE DEF c
    <2>5. OneMore(open[r], c, row.status)
      BY <2>2, <2>3 DEF OneMore, Has
    <2>6. Accepted(c) = Accepted(open[r])
      BY <2>3 DEF Accepted
    <2>7. pc' = pc /\ left' = [left EXCEPT ![r] = Tail(left[r])]
      BY <1>6 DEF DuplicateEvent
    <2> QED
      BY <1>1, <1>2, <1>5, <2>2, <2>3, <2>4, <2>5, <2>6, <2>7
  <1>7. CASE RejectEvent(r)
    <2> DEFINE c == Recorded(open[r], event, "rejected")
    <2>1. c \in Batch /\ OneMore(open[r], c, "rejected") /\ Accepted(c) = Accepted(open[r])
      BY <1>2, <1>3, RecordedIsOneMore DEF Statuses
    <2>2. /\ open' = [open EXCEPT ![r] = c]
          /\ pc' = pc /\ left' = [left EXCEPT ![r] = Tail(left[r])]
      BY <1>7 DEF RejectEvent
    <2> HIDE DEF c
    <2> QED
      BY <1>1, <1>2, <1>5, <2>1, <2>2 DEF Statuses
  <1>8. CASE RecordEvent(r)
    <2> DEFINE c == Recorded(open[r], event, "normalized")
    <2>1. /\ c \in Batch /\ OneMore(open[r], c, "normalized")
          /\ Accepted(c) = Accepted(open[r]) \cup ({event.key} \ {None})
      BY <1>2, <1>3, RecordedIsOneMore DEF Statuses
    <2>2. /\ open' = [open EXCEPT ![r] = c]
          /\ pc' = pc /\ left' = [left EXCEPT ![r] = Tail(left[r])]
          /\ event.key \in KeysSeen(r) \cup {None}
      BY <1>8 DEF RecordEvent
    <2> HIDE DEF c, event
    <2> QED
      BY <1>1, <1>2, <1>5, <2>1, <2>2 DEF Statuses
  <1>9. CASE DecideToWrite(r)
    <2> DEFINE c == Recorded(open[r], event, "normalized")
    <2>1. /\ c \in Batch /\ OneMore(open[r], c, "normalized")
          /\ Accepted(c) = Accepted(open[r]) \cup ({event.key} \ {None})
      BY <1>2, <1>3, RecordedIsOneMore DEF Statuses
    <2>2. /\ open' = [open EXCEPT ![r] = c]
          /\ pc' = [pc EXCEPT ![r] = "write"] /\ left' = left
          /\ event.key \notin KeysSeen(r) \cup {None}
      BY <1>9 DEF DecideToWrite
    <2>3. Accepted(c) = Accepted(open[r]) \cup {event.key} /\ event.key \in Keys \ KeysSeen(r)
      BY <1>4, <2>1, <2>2
    <2> HIDE DEF c
    <2> QED
      BY <1>1, <1>2, <1>5, <2>1, <2>2, <2>3 DEF Statuses
  <1> QED
    BY <1>6, <1>7, <1>8, <1>9

-----------------------------------------------------------------------------
(* Types. *)

\* Every step keeps the types.
LEMMA TypeStep ==
  ASSUME TypeOK, \A r \in Requests : Placed(r),
         \A b \in batches : Told(b), \A r \in Requests : Counting(r), [Next]_vars
  PROVE  TypeOK'
  <1>1. ASSUME NEW r \in Requests, NEW c \in Calls, Start(r, c)
        PROVE  TypeOK'
    BY <1>1 DEF TypeOK, Start, tables, Steps
  <1>2. ASSUME NEW r \in Requests, BeginIngest(r)
        PROVE  TypeOK'
    <2>1. call[r] \in Calls /\ call[r].delivery \in Delivery
      BY <1>2, CallFields DEF BeginIngest, Placed
    <2>2. <<call[r].delivery>> \in Seq(Delivery)
      BY <2>1
    <2> QED
      BY <1>2, <2>2 DEF TypeOK, BeginIngest, tables, Steps
  <1>3. ASSUME NEW r \in Requests, CreateRun(r)
        PROVE  TypeOK'
    <2> DEFINE run == call[r].run
               row == [status |-> "running", resets |-> 0]
               made == Generation(run, faults[run], run)
    <2>1. run \in Runs
      BY <1>3, CallFields DEF CreateRun, Placed
    <2>2. made \in Seq(Delivery)
      BY <2>1, GenerationType DEF TypeOK
    <2>3. [work[r] EXCEPT !.run = row] \in Work
      BY DEF TypeOK, Work, RunRow
    <2>4. /\ work' = [work EXCEPT ![r] = [work[r] EXCEPT !.run = row]]
          /\ plan' = [plan EXCEPT ![r] = made]
          /\ pc' = [pc EXCEPT ![r] = "open"]
          /\ UNCHANGED <<tables, call, resets, left, open, answer, reply>>
      BY <1>3 DEF CreateRun
    <2> HIDE DEF made, row
    <2> QED
      BY <2>2, <2>3, <2>4 DEF TypeOK, tables, Steps
  <1>4. ASSUME NEW r \in Requests, ReadConfig(r)
        PROVE  TypeOK'
    <2>1. call[r].run \in Runs
      BY <1>4, CallFields DEF ReadConfig, Placed
    <2>2. runs[call[r].run].resets + 1 \in Nat
      BY <1>4, <2>1 DEF TypeOK, ReadConfig, RunRow
    <2> QED
      BY <1>4, <2>2 DEF TypeOK, ReadConfig, tables, Steps
  <1>5. ASSUME NEW r \in Requests, ResetRun(r)
        PROVE  TypeOK'
    <2> DEFINE run == call[r].run
               row == [status |-> "running", resets |-> resets[r]]
               made == Generation(run, faults[run], resets[r])
    <2>1. run \in Runs /\ resets[r] \in Nat
      BY <1>5, CallFields DEF ResetRun, Placed, TypeOK
    <2>2. made \in Seq(Delivery)
      BY <2>1, GenerationType DEF TypeOK
    <2>3. [work[r] EXCEPT !.run = row] \in Work
      BY <2>1 DEF TypeOK, Work, RunRow
    <2>4. /\ work' = [work EXCEPT ![r] = [work[r] EXCEPT !.run = row]]
          /\ plan' = [plan EXCEPT ![r] = made]
          /\ pc' = [pc EXCEPT ![r] = "open"]
          /\ UNCHANGED <<tables, call, resets, left, open, answer, reply>>
      BY <1>5 DEF ResetRun
    <2> HIDE DEF made, row
    <2> QED
      BY <2>2, <2>3, <2>4 DEF TypeOK, tables, Steps
  <1>6. ASSUME NEW r \in Requests, ReplayBatch(r)
        PROVE  TypeOK'
    <2>1. PICK b \in BatchesSeen(r) : answer' = [answer EXCEPT ![r] = AnswerFor(b)]
      BY <1>6 DEF ReplayBatch
    <2>2. AnswerFor(b) \in Answer
      BY SeenBatchType, AnswerType
    <2>3. Tail(plan[r]) \in Seq(Delivery)
      BY <1>6, HeadAndTail DEF ReplayBatch, TypeOK
    <2> QED
      BY <1>6, <2>1, <2>2, <2>3 DEF ReplayBatch, TypeOK, tables
  <1>7. ASSUME NEW r \in Requests, DecideToIngest(r)
        PROVE  TypeOK'
    BY <1>7 DEF TypeOK, DecideToIngest, tables, Steps
  <1>8. ASSUME NEW r \in Requests, InsertBatch(r)
        PROVE  TypeOK'
    <2> DEFINE delivery == Head(plan[r])
               new == [ref |-> delivery.ref, run |-> call[r].run, by |-> r,
                       expected |-> Len(delivery.events), received |-> 0, rejected |-> 0,
                       events |-> {}, status |-> "pending", health |-> "unknown"]
    <2>1. call[r].run \in Runs
      BY <1>8, CallFields DEF InsertBatch, Placed
    <2>2. delivery \in Delivery
      BY <1>8, HeadAndTail DEF InsertBatch, Placed, TypeOK
    <2> HIDE DEF delivery
    <2>3. delivery.ref \in Ref /\ delivery.events \in Seq(Event)
      BY <2>2 DEF Delivery
    <2>4. Len(delivery.events) \in Nat
      BY <2>3
    <2>5. new \in Batch
      BY <2>1, <2>3, <2>4 DEF Batch
    <2>6. /\ open' = [open EXCEPT ![r] = new]
          /\ left' = [left EXCEPT ![r] = delivery.events]
          /\ pc' = [pc EXCEPT ![r] = "event"]
          /\ UNCHANGED <<tables, call, resets, plan, work, answer, reply>>
      BY <1>8 DEF InsertBatch, delivery
    <2> HIDE DEF new
    <2> QED
      BY <2>3, <2>5, <2>6 DEF TypeOK, tables, Steps
  <1>9. ASSUME NEW r \in Requests,
               DuplicateEvent(r) \/ RejectEvent(r) \/ RecordEvent(r) \/ DecideToWrite(r)
        PROVE  TypeOK'
    <2>1. PICK b \in Batch :
            /\ open' = [open EXCEPT ![r] = b]
            /\ \/ pc' = pc /\ left' = [left EXCEPT ![r] = Tail(left[r])]
               \/ pc' = [pc EXCEPT ![r] = "write"] /\ left' = left
      BY <1>9, EventSteps
    <2>2. /\ left[r] # <<>>
          /\ UNCHANGED <<tables, call, resets, plan, work, answer, reply>>
      BY <1>9, EventSteps
    <2>3. Tail(left[r]) \in Seq(Event)
      BY <2>2, HeadAndTail DEF TypeOK
    <2> QED
      BY <2>1, <2>2, <2>3 DEF TypeOK, tables, Steps
  <1>10. ASSUME NEW r \in Requests, WriteTransaction(r)
         PROVE  TypeOK'
    <2> DEFINE row == [key |-> Head(left[r]).key, run |-> call[r].run]
    <2>1. row \in Row
      BY <1>10, CallFields DEF WriteTransaction, Placed, Row
    <2> HIDE DEF row
    <2>2. [work[r] EXCEPT !.transactions = @ \cup {row}] \in Work
      BY <2>1 DEF TypeOK, Work
    <2>3. Tail(left[r]) \in Seq(Event)
      BY <1>10, HeadAndTail DEF WriteTransaction, Placed, TypeOK
    <2>4. /\ work' = [work EXCEPT ![r] = [work[r] EXCEPT !.transactions = @ \cup {row}]]
          /\ left' = [left EXCEPT ![r] = Tail(left[r])]
          /\ pc' = [pc EXCEPT ![r] = "event"]
          /\ UNCHANGED <<tables, call, resets, plan, open, answer, reply>>
      BY <1>10 DEF WriteTransaction, row
    <2> QED
      BY <2>2, <2>3, <2>4 DEF TypeOK, tables, Steps
  <1>11. ASSUME NEW r \in Requests, CloseBatch(r)
         PROVE  TypeOK'
    <2> DEFINE b == Closed(open[r])
    <2>1. open[r] \in Batch
      BY <1>11 DEF CloseBatch, Placed, TypeOK
    <2>2. b \in Batch /\ AnswerFor(b) \in Answer
      BY <2>1, ClosedFields, AnswerType
    <2>3. Tail(plan[r]) \in Seq(Delivery)
      BY <1>11, HeadAndTail DEF CloseBatch, Placed, TypeOK
    <2>4. /\ work' = [work EXCEPT ![r] = [work[r] EXCEPT !.batches = @ \cup {b}]]
          /\ open' = [open EXCEPT ![r] = None]
          /\ answer' = [answer EXCEPT ![r] = AnswerFor(b)]
          /\ plan' = [plan EXCEPT ![r] = Tail(plan[r])]
          /\ pc' = [pc EXCEPT ![r] = "open"]
          /\ UNCHANGED <<tables, call, resets, left, reply>>
      BY <1>11 DEF CloseBatch
    <2> HIDE DEF b
    <2>5. [work[r] EXCEPT !.batches = @ \cup {b}] \in Work
      BY <2>2 DEF TypeOK, Work
    <2> QED
      BY <2>2, <2>3, <2>4, <2>5 DEF TypeOK, tables, Steps
  <1>12. ASSUME NEW r \in Requests, Finish(r)
         PROVE  TypeOK'
    <2>1. answer[r] \in Answer \cup {None} /\ "ok" \in Codes
      BY DEF TypeOK, Codes
    <2>2. work[r].batches \subseteq Batch /\ work[r].transactions \subseteq Row
      BY DEF TypeOK, Work
    <2>3. runs' \in [Runs -> RunRow \cup {None}]
      <3>1. CASE work[r].run = None
        BY <1>12, <3>1 DEF Finish, TypeOK
      <3>2. CASE work[r].run # None
        <4>1. work[r].run \in RunRow
          BY <3>2 DEF TypeOK, Work
        <4>2. [work[r].run EXCEPT !.status = "completed"] \in RunRow
          BY <4>1 DEF RunRow
        <4> QED
          BY <1>12, <3>2, <4>2 DEF Finish, TypeOK
      <3> QED
        BY <3>1, <3>2
    <2>4. faults' = faults /\ batches' = batches \cup work[r].batches
          /\ transactions' = transactions \cup work[r].transactions
          /\ Answered(r, "ok", answer[r])
      BY <1>12 DEF Finish
    <2> QED
      BY <2>1, <2>2, <2>3, <2>4, AnsweredType DEF TypeOK
  <1>13. ASSUME NEW r \in Requests, NEW code \in Codes \ {"ok"}, Fail(r, code)
         PROVE  TypeOK'
    BY <1>13, AnsweredType DEF TypeOK, Fail, tables
  <1>14. ASSUME NEW run \in Runs, NEW f \in Faults, SetFault(run, f)
         PROVE  TypeOK'
    BY <1>14 DEF TypeOK, SetFault, local
  <1>15. ASSUME UNCHANGED vars
         PROVE  TypeOK'
    BY <1>15 DEF TypeOK, vars, tables, local
  <1> QED
    BY <1>1, <1>2, <1>3, <1>4, <1>5, <1>6, <1>7, <1>8, <1>9, <1>10, <1>11, <1>12, <1>13,
       <1>14, <1>15, NextCases, Zenon DEF Acts

-----------------------------------------------------------------------------
(* What a request holds in memory and in its transaction. *)

Untouched(q) ==
  /\ pc'[q] = pc[q] /\ call'[q] = call[q] /\ plan'[q] = plan[q] /\ left'[q] = left[q]
  /\ open'[q] = open[q] /\ work'[q] = work[q] /\ answer'[q] = answer[q]
  /\ reply'[q] = reply[q]

\* A step for a request leaves the others alone.
LEMMA Others ==
  ASSUME TypeOK, NEW r \in Requests, NEW q \in Requests \ {r}, Acts(r)
  PROVE  Untouched(q)
  <1>1. ASSUME NEW c \in Calls, Start(r, c)
        PROVE  Untouched(q)
    BY <1>1 DEF TypeOK, Untouched, Start
  <1>2. ASSUME BeginIngest(r) \/ CreateRun(r) \/ ReadConfig(r) \/ ResetRun(r)
        PROVE  Untouched(q)
    BY <1>2 DEF TypeOK, Untouched, BeginIngest, CreateRun, ReadConfig, ResetRun
  <1>3. ASSUME ReplayBatch(r) \/ DecideToIngest(r) \/ InsertBatch(r)
        PROVE  Untouched(q)
    BY <1>3 DEF TypeOK, Untouched, ReplayBatch, DecideToIngest, InsertBatch
  <1>4. ASSUME DuplicateEvent(r) \/ RejectEvent(r) \/ RecordEvent(r) \/ DecideToWrite(r)
        PROVE  Untouched(q)
    BY <1>4 DEF TypeOK, Untouched, DuplicateEvent, RejectEvent, RecordEvent, DecideToWrite
  <1>5. ASSUME WriteTransaction(r) \/ CloseBatch(r)
        PROVE  Untouched(q)
    BY <1>5 DEF TypeOK, Untouched, WriteTransaction, CloseBatch
  <1>6. ASSUME NEW code \in Codes, NEW response, Answered(r, code, response)
        PROVE  Untouched(q)
    BY <1>6 DEF TypeOK, Untouched, Answered
  <1>7. ASSUME Finish(r) \/ \E code \in Codes \ {"ok"} : pc[r] # "idle" /\ Fail(r, code)
        PROVE  Untouched(q)
    BY <1>6, <1>7 DEF Finish, Fail, Codes
  <1> QED
    BY <1>1, <1>2, <1>3, <1>4, <1>5, <1>7, Zenon DEF Acts

\* The steps up to the insertion of a batch add nothing that others could see,
\* and the one that sets the call has nothing in its transaction yet.
LEMMA EarlySteps ==
  ASSUME TypeOK, \A r \in Requests : Placed(r), NEW r \in Requests,
         \/ \E c \in Calls : Start(r, c)
         \/ BeginIngest(r) \/ CreateRun(r) \/ ReadConfig(r) \/ ResetRun(r)
         \/ ReplayBatch(r) \/ DecideToIngest(r)
  PROVE  /\ UNCHANGED <<batches, transactions, left, open, reply>>
         /\ pc[r] \in {"idle", "begin", "lock", "open"}
         /\ pc'[r] \in {"begin", "lock", "open", "insert"}
         /\ open[r] = None
         /\ work'[r].batches = work[r].batches
         /\ work'[r].transactions = work[r].transactions
         /\ \/ call'[r] = call[r]
            \/ work[r].batches = {} /\ work[r].transactions = {}
  <1>1. ASSUME NEW c \in Calls, Start(r, c)
        PROVE  /\ UNCHANGED <<batches, transactions, left, open, reply, work>>
               /\ pc[r] = "idle" /\ pc'[r] = "begin"
               /\ work[r].batches = {} /\ work[r].transactions = {}
    BY <1>1 DEF TypeOK, Placed, NoWork, Start, tables
  <1>2. ASSUME BeginIngest(r) \/ ReadConfig(r)
        PROVE  /\ UNCHANGED <<batches, transactions, left, open, reply, work, call>>
               /\ pc[r] = "begin" /\ pc'[r] \in {"open", "lock"}
    BY <1>2 DEF TypeOK, BeginIngest, ReadConfig, tables
  <1>3. ASSUME CreateRun(r) \/ ResetRun(r)
        PROVE  /\ UNCHANGED <<batches, transactions, left, open, reply, call>>
               /\ pc[r] \in {"begin", "lock"} /\ pc'[r] = "open"
               /\ work'[r].batches = work[r].batches
               /\ work'[r].transactions = work[r].transactions
    BY <1>3 DEF TypeOK, Work, CreateRun, ResetRun, tables
  <1>4. ASSUME ReplayBatch(r) \/ DecideToIngest(r)
        PROVE  /\ UNCHANGED <<batches, transactions, left, open, reply, work, call>>
               /\ pc[r] = "open" /\ pc'[r] \in {"open", "insert"}
    BY <1>4 DEF TypeOK, ReplayBatch, DecideToIngest, tables
  <1>5. pc[r] \in {"idle", "begin", "lock", "open"} => open[r] = None
    BY DEF Placed
  <1> QED
    BY <1>1, <1>2, <1>3, <1>4, <1>5

\* Nothing is left of a transaction that has ended.
LEMMA LastSteps ==
  ASSUME TypeOK, NEW r \in Requests,
         Finish(r) \/ \E code \in Codes \ {"ok"} : pc[r] # "idle" /\ Fail(r, code)
  PROVE  /\ pc'[r] = "done" /\ open'[r] = None /\ work'[r] = NoWork /\ plan'[r] = <<>>
         /\ left'[r] = <<>> /\ answer'[r] = None /\ call'[r] = call[r] /\ pc[r] # "idle"
  BY DEF TypeOK, Finish, Fail, Answered

\* Every step leaves each request where its step says.
LEMMA PlacedStep ==
  ASSUME TypeOK, \A r \in Requests : Placed(r),
         \A b \in batches : Told(b), \A r \in Requests : Counting(r), [Next]_vars
  PROVE  \A r \in Requests : Placed(r)'
  <1>1. ASSUME NEW r \in Requests, Acts(r), NEW q \in Requests \ {r}
        PROVE  Placed(q)'
    BY <1>1, Others DEF Untouched, Placed
  <1>2. ASSUME NEW r \in Requests, NEW c \in Calls, Start(r, c)
        PROVE  Placed(r)'
    BY <1>2 DEF TypeOK, Placed, Start
  <1>3. ASSUME NEW r \in Requests, BeginIngest(r) \/ ReadConfig(r)
        PROVE  Placed(r)'
    <2>1. CASE BeginIngest(r)
      <3>1. /\ pc[r] = "begin" /\ pc'[r] = "open" /\ plan'[r] = <<call[r].delivery>>
            /\ UNCHANGED <<call, left, open, work, answer>>
        BY <2>1 DEF TypeOK, BeginIngest
      <3>2. <<call[r].delivery>> # <<>>
        OBVIOUS
      <3> QED
        BY <3>1, <3>2 DEF Placed
    <2>2. CASE ReadConfig(r)
      BY <2>2 DEF TypeOK, Placed, ReadConfig
    <2> QED
      BY <1>3, <2>1, <2>2
  <1>4. ASSUME NEW r \in Requests, CreateRun(r) \/ ResetRun(r)
        PROVE  Placed(r)'
    <2>1. plan'[r] # <<>>
      <3>1. call[r].run \in Runs /\ faults[call[r].run] \in SUBSET Faults /\ resets[r] \in Nat
        BY <1>4, CallFields DEF TypeOK, Placed, CreateRun, ResetRun
      <3>2. /\ Generation(call[r].run, faults[call[r].run], call[r].run) # <<>>
            /\ Generation(call[r].run, faults[call[r].run], resets[r]) # <<>>
        BY <3>1, GenerationType
      <3> QED
        BY <1>4, <3>2 DEF TypeOK, CreateRun, ResetRun
    <2>2. /\ pc[r] \in {"begin", "lock"} /\ pc'[r] = "open"
          /\ UNCHANGED <<call, left, open, answer>>
      BY <1>4 DEF TypeOK, CreateRun, ResetRun
    <2> QED
      BY <2>1, <2>2 DEF Placed
  <1>5. ASSUME NEW r \in Requests, ReplayBatch(r)
        PROVE  Placed(r)'
    <2>1. PICK b \in BatchesSeen(r) : answer' = [answer EXCEPT ![r] = AnswerFor(b)]
      BY <1>5 DEF ReplayBatch
    <2>2. AnswerFor(b) # None
      BY SeenBatchType, AnswerType, NoneAssumption
    <2> QED
      BY <1>5, <2>1, <2>2 DEF TypeOK, Placed, ReplayBatch
  <1>6. ASSUME NEW r \in Requests, DecideToIngest(r)
        PROVE  Placed(r)'
    BY <1>6 DEF TypeOK, Placed, DecideToIngest
  <1>7. ASSUME NEW r \in Requests, InsertBatch(r)
        PROVE  Placed(r)'
    <2>1. /\ pc[r] = "insert" /\ pc'[r] = "event"
          /\ UNCHANGED <<call, plan, work>>
      BY <1>7 DEF TypeOK, InsertBatch
    <2>2. open'[r] # None
      <3> DEFINE delivery == Head(plan[r])
                 new == [ref |-> delivery.ref, run |-> call[r].run, by |-> r,
                         expected |-> Len(delivery.events), received |-> 0, rejected |-> 0,
                         events |-> {}, status |-> "pending", health |-> "unknown"]
      <3>1. call[r].run \in Runs /\ delivery \in Delivery
        BY <2>1, CallFields, HeadAndTail DEF Placed, TypeOK
      <3> HIDE DEF delivery
      <3>2. delivery.ref \in Ref /\ delivery.events \in Seq(Event)
        BY <3>1 DEF Delivery
      <3>3. Len(delivery.events) \in Nat
        BY <3>2
      <3>4. new \in Batch
        BY <3>1, <3>2, <3>3 DEF Batch
      <3>5. open'[r] = new
        BY <1>7 DEF TypeOK, InsertBatch, delivery
      <3> HIDE DEF new
      <3> QED
        BY <3>4, <3>5, NoneAssumption
    <2> QED
      BY <2>1, <2>2 DEF Placed
  <1>8. ASSUME NEW r \in Requests,
               DuplicateEvent(r) \/ RejectEvent(r) \/ RecordEvent(r) \/ DecideToWrite(r)
        PROVE  Placed(r)'
    <2>1. PICK b \in Batch :
            /\ open' = [open EXCEPT ![r] = b]
            /\ \/ pc' = pc /\ left' = [left EXCEPT ![r] = Tail(left[r])]
               \/ pc' = [pc EXCEPT ![r] = "write"] /\ left' = left /\ Head(left[r]).key \in Keys
      BY <1>8, EventSteps
    <2>2. /\ pc[r] = "event" /\ left[r] # <<>>
          /\ UNCHANGED <<call, plan, work, answer>>
      BY <1>8, EventSteps
    <2>3. open'[r] # None
      BY <2>1, NoneAssumption DEF TypeOK
    <2> QED
      BY <2>1, <2>2, <2>3 DEF TypeOK, Placed
  <1>9. ASSUME NEW r \in Requests, WriteTransaction(r)
        PROVE  Placed(r)'
    BY <1>9 DEF TypeOK, Placed, WriteTransaction
  <1>10. ASSUME NEW r \in Requests, CloseBatch(r)
         PROVE  Placed(r)'
    <2>1. AnswerFor(Closed(open[r])) # None
      BY <1>10, ClosedFields, AnswerType, NoneAssumption DEF CloseBatch, Placed, TypeOK
    <2>2. /\ pc[r] = "event" /\ pc'[r] = "open" /\ open'[r] = None
          /\ answer'[r] = AnswerFor(Closed(open[r]))
          /\ UNCHANGED call
      BY <1>10 DEF TypeOK, CloseBatch
    <2> QED
      BY <2>1, <2>2 DEF Placed
  <1>11. ASSUME NEW r \in Requests,
                Finish(r) \/ \E code \in Codes \ {"ok"} : pc[r] # "idle" /\ Fail(r, code)
         PROVE  Placed(r)'
    BY <1>11, LastSteps DEF Placed
  <1>12. ASSUME UNCHANGED local, NEW q \in Requests
         PROVE  Placed(q)'
    BY <1>12 DEF local, Placed
  <1>13. ASSUME NEW r \in Requests, Acts(r)
         PROVE  Placed(r)'
    BY <1>2, <1>3, <1>4, <1>5, <1>6, <1>7, <1>8, <1>9, <1>10, <1>11, <1>13, Zenon DEF Acts
  <1> QED
    BY <1>1, <1>12, <1>13, NextCases DEF SetFault, vars

\* Whatever a request writes is of the run it was called for.
LEMMA OfItsRunStep ==
  ASSUME TypeOK, \A r \in Requests : Placed(r), \A r \in Requests : OfItsRun(r), [Next]_vars
  PROVE  \A r \in Requests : OfItsRun(r)'
  <1>1. ASSUME NEW r \in Requests, Acts(r), NEW q \in Requests \ {r}
        PROVE  OfItsRun(q)'
    BY <1>1, Others DEF Untouched, OfItsRun
  <1>2. ASSUME NEW r \in Requests,
               \/ \E c \in Calls : Start(r, c)
               \/ BeginIngest(r) \/ CreateRun(r) \/ ReadConfig(r) \/ ResetRun(r)
               \/ ReplayBatch(r) \/ DecideToIngest(r)
        PROVE  OfItsRun(r)'
    BY <1>2, EarlySteps DEF OfItsRun
  <1>3. ASSUME NEW r \in Requests, InsertBatch(r)
        PROVE  OfItsRun(r)'
    BY <1>3 DEF TypeOK, InsertBatch, OfItsRun
  <1>4. ASSUME NEW r \in Requests,
               DuplicateEvent(r) \/ RejectEvent(r) \/ RecordEvent(r) \/ DecideToWrite(r)
        PROVE  OfItsRun(r)'
    <2>1. PICK b \in Batch : open' = [open EXCEPT ![r] = b] /\ b.run = open[r].run
      BY <1>4, EventSteps DEF OneMore
    <2>2. open[r] # None /\ UNCHANGED <<call, work>>
      BY <1>4, EventSteps
    <2> QED
      BY <2>1, <2>2 DEF TypeOK, OfItsRun
  <1>5. ASSUME NEW r \in Requests, WriteTransaction(r)
        PROVE  OfItsRun(r)'
    BY <1>5 DEF TypeOK, Work, WriteTransaction, OfItsRun
  <1>6. ASSUME NEW r \in Requests, CloseBatch(r)
        PROVE  OfItsRun(r)'
    <2>1. open[r] # None /\ open[r] \in Batch
      BY <1>6 DEF CloseBatch, Placed, TypeOK
    <2>2. Closed(open[r]).run = call[r].run
      BY <2>1, ClosedFields DEF OfItsRun
    <2> QED
      BY <1>6, <2>2 DEF TypeOK, Work, CloseBatch, OfItsRun
  <1>7. ASSUME NEW r \in Requests,
               Finish(r) \/ \E code \in Codes \ {"ok"} : pc[r] # "idle" /\ Fail(r, code)
        PROVE  OfItsRun(r)'
    BY <1>7, LastSteps DEF OfItsRun, NoWork
  <1>8. ASSUME UNCHANGED local, NEW q \in Requests
        PROVE  OfItsRun(q)'
    BY <1>8 DEF local, OfItsRun
  <1>9. ASSUME NEW r \in Requests, Acts(r)
        PROVE  OfItsRun(r)'
    BY <1>2, <1>3, <1>4, <1>5, <1>6, <1>7, <1>9, Zenon DEF Acts
  <1> QED
    BY <1>1, <1>8, <1>9, NextCases DEF SetFault, vars

\* Only the end of a call changes the tables that are read by others.
LEMMA Commits ==
  ASSUME NEW r \in Requests, Acts(r)
  PROVE  Finish(r) \/ UNCHANGED <<batches, transactions>>
  <1>1. ASSUME NEW c \in Calls, Start(r, c)
        PROVE  UNCHANGED <<batches, transactions>>
    BY <1>1 DEF Start, tables
  <1>2. ASSUME BeginIngest(r) \/ CreateRun(r) \/ ReadConfig(r) \/ ResetRun(r)
        PROVE  UNCHANGED <<batches, transactions>>
    BY <1>2 DEF BeginIngest, CreateRun, ReadConfig, ResetRun, tables
  <1>3. ASSUME ReplayBatch(r) \/ DecideToIngest(r) \/ InsertBatch(r)
        PROVE  UNCHANGED <<batches, transactions>>
    BY <1>3 DEF ReplayBatch, DecideToIngest, InsertBatch, tables
  <1>4. ASSUME DuplicateEvent(r) \/ RejectEvent(r) \/ RecordEvent(r) \/ DecideToWrite(r)
        PROVE  UNCHANGED <<batches, transactions>>
    BY <1>4 DEF DuplicateEvent, RejectEvent, RecordEvent, DecideToWrite, tables
  <1>5. ASSUME WriteTransaction(r) \/ CloseBatch(r)
        PROVE  UNCHANGED <<batches, transactions>>
    BY <1>5 DEF WriteTransaction, CloseBatch, tables
  <1>6. ASSUME \E code \in Codes \ {"ok"} : pc[r] # "idle" /\ Fail(r, code)
        PROVE  UNCHANGED <<batches, transactions>>
    BY <1>6 DEF Fail, tables
  <1> QED
    BY <1>1, <1>2, <1>3, <1>4, <1>5, <1>6, Zenon DEF Acts

\* What the end of a call commits.
LEMMA FinishCommits ==
  ASSUME NEW r \in Requests, Finish(r)
  PROVE  /\ pc[r] = "open" /\ plan[r] = <<>>
         /\ batches' = batches \cup work[r].batches
         /\ transactions' = transactions \cup work[r].transactions
  BY DEF Finish

-----------------------------------------------------------------------------
(* The counts and the evidence. *)

\* A batch in which one event more is counted has one less to count.
LEMMA TallyOneMore ==
  ASSUME NEW a \in Batch, NEW b \in Batch, NEW status \in Statuses, OneMore(a, b, status),
         NEW n \in Nat, n > 0, Tally(a, n)
  PROVE  Tally(b, n - 1)
  <1>1. /\ a.received \in Nat /\ a.rejected \in Nat /\ a.expected \in Nat
        /\ b.received \in Nat /\ b.rejected \in Nat
    BY DEF Batch
  <1>2. status = "normalized" \/ status = "rejected"
    BY DEF Statuses
  <1>3. /\ Has(b, "normalized") <=> (Has(a, "normalized") \/ status = "normalized")
        /\ Has(b, "rejected") <=> (Has(a, "rejected") \/ status = "rejected")
    BY DEF OneMore, Statuses
  <1> QED
    BY <1>1, <1>2, <1>3 DEF OneMore, Tally

\* A batch all events of which are counted tells its evidence when it is closed.
LEMMA ClosedTells ==
  ASSUME NEW b \in Batch, Tally(b, 0)
  PROVE  Told(Closed(b))
  <1> DEFINE c == Closed(b)
  <1>1. /\ c.expected = b.expected
        /\ c.events = b.events /\ c.received = b.received /\ c.rejected = b.rejected
        /\ c.status = (IF b.rejected = b.expected THEN "rejected" ELSE "normalized")
        /\ c.health = Health(c)
    BY ClosedFields
  <1> HIDE DEF c
  <1>2. Tally(c, 0)
    BY <1>1 DEF Tally, Has
  <1>3. Told(c)
    BY <1>1, <1>2 DEF Told
  <1> QED
    BY <1>3 DEF c

\* Every event is counted once, and every batch that is closed tells it.
LEMMA CountingStep ==
  ASSUME TypeOK, \A r \in Requests : Placed(r), \A r \in Requests : Counting(r),
         \A b \in batches : Told(b), [Next]_vars
  PROVE  (\A r \in Requests : Counting(r)') /\ (\A b \in batches' : Told(b))
  <1>1. ASSUME NEW r \in Requests, Acts(r), NEW q \in Requests \ {r}
        PROVE  Counting(q)'
    BY <1>1, Others DEF Untouched, Counting, StillToCount
  <1>2. ASSUME NEW r \in Requests,
               \/ \E c \in Calls : Start(r, c)
               \/ BeginIngest(r) \/ CreateRun(r) \/ ReadConfig(r) \/ ResetRun(r)
               \/ ReplayBatch(r) \/ DecideToIngest(r)
        PROVE  Counting(r)'
    BY <1>2, EarlySteps DEF Counting
  <1>3. ASSUME NEW r \in Requests, InsertBatch(r)
        PROVE  Counting(r)'
    <2> DEFINE events == Head(plan[r]).events
    <2>1. /\ open'[r].events = {} /\ open'[r].expected = Len(events)
          /\ open'[r].received = 0 /\ open'[r].rejected = 0
          /\ left'[r] = events /\ pc'[r] = "event" /\ work' = work
      BY <1>3 DEF TypeOK, InsertBatch
    <2>2. events \in Seq(Event) /\ events # <<>>
      <3>1. Head(plan[r]) \in Delivery
        BY <1>3, HeadAndTail DEF TypeOK, Placed, InsertBatch
      <3> QED
        BY <3>1 DEF Delivery
    <2> HIDE DEF events
    <2>3. Len(events) \in Nat /\ Len(events) > 0
      BY <2>2
    <2>4. Tally(open[r]', Len(events))
      BY <2>1, <2>3 DEF Tally, Has
    <2> QED
      BY <2>1, <2>4 DEF Counting, StillToCount
  <1>4. ASSUME NEW r \in Requests,
               DuplicateEvent(r) \/ RejectEvent(r) \/ RecordEvent(r) \/ DecideToWrite(r)
        PROVE  Counting(r)'
    <2>1. PICK status \in Statuses, b \in Batch :
            /\ open' = [open EXCEPT ![r] = b] /\ OneMore(open[r], b, status)
            /\ \/ pc' = pc /\ left' = [left EXCEPT ![r] = Tail(left[r])]
               \/ pc' = [pc EXCEPT ![r] = "write"] /\ left' = left
      BY <1>4, EventSteps
    <2>2. /\ pc[r] = "event" /\ open[r] \in Batch /\ open[r] # None /\ left[r] # <<>>
          /\ work' = work
      BY <1>4, EventSteps
    <2>3. left[r] \in Seq(Event) /\ Len(left[r]) \in Nat /\ Len(left[r]) > 0
      BY <2>2 DEF TypeOK
    <2>4. Tally(open[r], Len(left[r]))
      BY <2>2 DEF Counting, StillToCount
    <2>5. Tally(b, Len(left[r]) - 1)
      BY <2>1, <2>2, <2>3, <2>4, TallyOneMore
    <2>6. Len(Tail(left[r])) = Len(left[r]) - 1
      BY <2>2, <2>3, HeadAndTail
    <2>7. StillToCount(r)' = Len(left[r]) - 1
      BY <2>1, <2>2, <2>6 DEF TypeOK, StillToCount
    <2>8. open'[r] = b
      BY <2>1 DEF TypeOK
    <2> QED
      BY <2>2, <2>5, <2>7, <2>8 DEF Counting
  <1>5. ASSUME NEW r \in Requests, WriteTransaction(r)
        PROVE  Counting(r)'
    <2>1. /\ pc[r] = "write" /\ pc'[r] = "event" /\ open' = open /\ left'[r] = Tail(left[r])
          /\ work'[r].batches = work[r].batches
      BY <1>5 DEF TypeOK, Work, WriteTransaction
    <2>2. Len(Tail(left[r])) = Len(left[r]) - 1
      BY <2>1, HeadAndTail DEF TypeOK, Placed
    <2> QED
      BY <2>1, <2>2 DEF Counting, StillToCount
  <1>6. ASSUME NEW r \in Requests, CloseBatch(r)
        PROVE  Counting(r)'
    <2>1. /\ open[r] # None /\ open[r] \in Batch
          /\ pc[r] = "event" /\ left[r] = <<>>
      BY <1>6 DEF CloseBatch, Placed, TypeOK
    <2>2. Tally(open[r], 0)
      BY <2>1 DEF Counting, StillToCount
    <2>3. Told(Closed(open[r]))
      BY <2>1, <2>2, ClosedTells
    <2>4. open'[r] = None /\ work'[r].batches = work[r].batches \cup {Closed(open[r])}
      BY <1>6 DEF TypeOK, Work, CloseBatch
    <2> QED
      BY <2>3, <2>4 DEF Counting
  <1>7. ASSUME NEW r \in Requests,
               Finish(r) \/ \E code \in Codes \ {"ok"} : pc[r] # "idle" /\ Fail(r, code)
        PROVE  Counting(r)'
    BY <1>7, LastSteps DEF Counting, NoWork
  <1>8. ASSUME UNCHANGED local, NEW q \in Requests
        PROVE  Counting(q)'
    BY <1>8 DEF local, Counting, StillToCount
  <1>9. ASSUME NEW r \in Requests, Acts(r)
        PROVE  Counting(r)'
    BY <1>2, <1>3, <1>4, <1>5, <1>6, <1>7, <1>9, Zenon DEF Acts
  <1>10. ASSUME NEW r \in Requests, Acts(r), NEW b \in batches'
         PROVE  Told(b)
    BY <1>10, Commits, FinishCommits DEF Counting
  <1>11. \A b \in batches' : Told(b)
    BY <1>10, NextCases DEF SetFault, vars, tables
  <1> QED
    BY <1>1, <1>8, <1>9, <1>11, NextCases DEF SetFault, vars

-----------------------------------------------------------------------------
(* The references of batches. *)

\* A transaction gets no reference but that of the batch it inserts, and keeps
\* none when it ends.
LEMMA HeldRefs ==
  ASSUME TypeOK, \A r \in Requests : Placed(r), NEW r \in Requests, Acts(r)
  PROVE  /\ RefsHeld(r)' \subseteq RefsHeld(r)
              \cup (IF InsertBatch(r) THEN {Head(plan[r]).ref} ELSE {})
         /\ Finish(r) => RefsHeld(r)' = {}
         /\ \A q \in Requests \ {r} : RefsHeld(q)' = RefsHeld(q)
  <1>1. ASSUME \/ \E c \in Calls : Start(r, c)
               \/ BeginIngest(r) \/ CreateRun(r) \/ ReadConfig(r) \/ ResetRun(r)
               \/ ReplayBatch(r) \/ DecideToIngest(r)
        PROVE  RefsHeld(r)' = RefsHeld(r)
    BY <1>1, EarlySteps DEF RefsHeld
  <1>2. ASSUME InsertBatch(r)
        PROVE  RefsHeld(r)' \subseteq RefsHeld(r) \cup {Head(plan[r]).ref}
    <2>1. open'[r].ref = Head(plan[r]).ref /\ work' = work
      BY <1>2 DEF TypeOK, InsertBatch
    <2> QED
      BY <2>1 DEF RefsHeld
  <1>3. ASSUME DuplicateEvent(r) \/ RejectEvent(r) \/ RecordEvent(r) \/ DecideToWrite(r)
        PROVE  RefsHeld(r)' = RefsHeld(r)
    <2>1. PICK b \in Batch : open' = [open EXCEPT ![r] = b] /\ b.ref = open[r].ref
      BY <1>3, EventSteps DEF OneMore
    <2>2. open[r] # None /\ work' = work
      BY <1>3, EventSteps
    <2>3. open'[r].ref = open[r].ref /\ open'[r] # None
      BY <2>1, NoneAssumption DEF TypeOK
    <2> QED
      BY <2>2, <2>3 DEF RefsHeld
  <1>4. ASSUME WriteTransaction(r)
        PROVE  RefsHeld(r)' = RefsHeld(r)
    <2>1. open' = open /\ work'[r].batches = work[r].batches
      BY <1>4 DEF TypeOK, Work, WriteTransaction
    <2> QED
      BY <2>1 DEF RefsHeld
  <1>5. ASSUME CloseBatch(r)
        PROVE  RefsHeld(r)' = RefsHeld(r)
    <2>1. open[r] # None /\ open[r] \in Batch
      BY <1>5 DEF CloseBatch, Placed, TypeOK
    <2>2. Closed(open[r]).ref = open[r].ref
      BY <2>1, ClosedFields
    <2>3. open'[r] = None /\ work'[r].batches = work[r].batches \cup {Closed(open[r])}
      BY <1>5 DEF TypeOK, Work, CloseBatch
    <2> QED
      BY <2>1, <2>2, <2>3 DEF RefsHeld
  <1>6. ASSUME Finish(r) \/ \E code \in Codes \ {"ok"} : pc[r] # "idle" /\ Fail(r, code)
        PROVE  RefsHeld(r)' = {}
    BY <1>6, LastSteps DEF RefsHeld, NoWork
  <1>7. ASSUME NEW q \in Requests \ {r}
        PROVE  RefsHeld(q)' = RefsHeld(q)
    BY <1>7, Others DEF Untouched, RefsHeld
  <1>8. RefsHeld(r)' \subseteq RefsHeld(r)
              \cup (IF InsertBatch(r) THEN {Head(plan[r]).ref} ELSE {})
    <2>1. CASE InsertBatch(r)
      BY <1>2, <2>1
    <2>2. CASE ~InsertBatch(r)
      <3>1. RefsHeld(r)' = RefsHeld(r) \/ RefsHeld(r)' = {}
        BY <1>1, <1>3, <1>4, <1>5, <1>6, <2>2, Zenon DEF Acts
      <3> QED
        BY <2>2, <3>1
    <2> QED
      BY <2>1, <2>2
  <1> QED
    BY <1>6, <1>7, <1>8

\* The reference that is inserted is new.
LEMMA InsertedRefIsNew ==
  ASSUME NEW r \in Requests, InsertBatch(r)
  PROVE  /\ \A b \in batches : b.ref # Head(plan[r]).ref
         /\ \A q \in Requests \ {r} : Head(plan[r]).ref \notin RefsHeld(q)
  BY DEF InsertBatch, BatchRefused, MayProceed, WaitsFor

\* No two batches get the same reference.
LEMMA RefsApartStep ==
  ASSUME TypeOK, \A r \in Requests : Placed(r), RefsApart, [Next]_vars
  PROVE  RefsApart'
  <1>1. ASSUME NEW r \in Requests, Acts(r), NEW q \in Requests \ {r}
        PROVE  RefsOfItsOwn(q)'
    BY <1>1, Others DEF Untouched, RefsOfItsOwn, RefsHeld, RefsApart
  <1>2. ASSUME NEW r \in Requests,
               \/ \E c \in Calls : Start(r, c)
               \/ BeginIngest(r) \/ CreateRun(r) \/ ReadConfig(r) \/ ResetRun(r)
               \/ ReplayBatch(r)
        PROVE  RefsOfItsOwn(r)'
    <2>1. pc'[r] # "insert"
      BY <1>2 DEF TypeOK, Start, BeginIngest, CreateRun, ReadConfig, ResetRun, ReplayBatch
    <2> QED
      BY <1>2, <2>1, EarlySteps DEF RefsApart, RefsOfItsOwn
  <1>3. ASSUME NEW r \in Requests, DecideToIngest(r)
        PROVE  RefsOfItsOwn(r)'
    <2>1. open[r] = None /\ UNCHANGED <<plan, open, work>>
      BY <1>3 DEF DecideToIngest, Placed
    <2>2. Head(plan[r]).ref \notin RefsHeld(r)
      BY <1>3, <2>1 DEF DecideToIngest, BatchesSeen, RefsHeld
    <2> QED
      BY <2>1, <2>2 DEF RefsApart, RefsOfItsOwn, RefsHeld
  <1>4. ASSUME NEW r \in Requests, InsertBatch(r)
        PROVE  RefsOfItsOwn(r)'
    <2>1. /\ pc[r] = "insert" /\ pc'[r] = "event"
          /\ open'[r].ref = Head(plan[r]).ref /\ work' = work
      BY <1>4 DEF TypeOK, InsertBatch
    <2> QED
      BY <2>1 DEF RefsApart, RefsOfItsOwn, RefsHeld
  <1>5. ASSUME NEW r \in Requests,
               DuplicateEvent(r) \/ RejectEvent(r) \/ RecordEvent(r) \/ DecideToWrite(r)
        PROVE  RefsOfItsOwn(r)'
    <2>1. PICK b \in Batch :
            /\ open' = [open EXCEPT ![r] = b] /\ b.ref = open[r].ref
            /\ pc' = pc \/ pc' = [pc EXCEPT ![r] = "write"]
      BY <1>5, EventSteps DEF OneMore
    <2>2. pc[r] = "event" /\ open[r] # None /\ work' = work
      BY <1>5, EventSteps
    <2>3. open'[r].ref = open[r].ref /\ pc'[r] # "insert"
      BY <2>1, <2>2 DEF TypeOK
    <2> QED
      BY <2>2, <2>3 DEF RefsApart, RefsOfItsOwn
  <1>6. ASSUME NEW r \in Requests, WriteTransaction(r)
        PROVE  RefsOfItsOwn(r)'
    <2>1. pc'[r] = "event" /\ open' = open /\ work'[r].batches = work[r].batches
      BY <1>6 DEF TypeOK, Work, WriteTransaction
    <2> QED
      BY <2>1 DEF RefsApart, RefsOfItsOwn
  <1>7. ASSUME NEW r \in Requests, CloseBatch(r)
        PROVE  RefsOfItsOwn(r)'
    <2>1. open[r] # None /\ open[r] \in Batch
      BY <1>7 DEF CloseBatch, Placed, TypeOK
    <2>2. Closed(open[r]).ref = open[r].ref
      BY <2>1, ClosedFields
    <2>3. /\ pc'[r] = "open" /\ open'[r] = None
          /\ work'[r].batches = work[r].batches \cup {Closed(open[r])}
      BY <1>7 DEF TypeOK, Work, CloseBatch
    <2> QED
      BY <2>1, <2>2, <2>3 DEF RefsApart, RefsOfItsOwn
  <1>8. ASSUME NEW r \in Requests,
               Finish(r) \/ \E code \in Codes \ {"ok"} : pc[r] # "idle" /\ Fail(r, code)
        PROVE  RefsOfItsOwn(r)'
    BY <1>8, LastSteps DEF RefsOfItsOwn, NoWork
  <1>9. ASSUME NEW r \in Requests, Acts(r)
        PROVE  RefsOfItsOwn(r)'
    BY <1>2, <1>3, <1>4, <1>5, <1>6, <1>7, <1>8, <1>9, Zenon DEF Acts
  <1>10. ASSUME NEW r \in Requests, Acts(r), NEW q \in Requests, NEW ref \in RefsHeld(q)',
                NEW p \in Requests \ {q}
         PROVE  ref \notin RefsHeld(p)'
    <2>1. ref \in RefsHeld(q) \/ (q = r /\ InsertBatch(r) /\ ref = Head(plan[r]).ref)
      BY <1>10, HeldRefs
    <2>2. ref \in RefsHeld(p)' =>
            ref \in RefsHeld(p) \/ (p = r /\ InsertBatch(r) /\ ref = Head(plan[r]).ref)
      BY <1>10, HeldRefs
    <2> QED
      BY <2>1, <2>2, InsertedRefIsNew DEF RefsApart
  <1>11. ASSUME NEW r \in Requests, Acts(r), NEW q \in Requests, NEW ref \in RefsHeld(q)',
                NEW b \in batches'
         PROVE  b.ref # ref
    <2>1. ref \in RefsHeld(q) \/ (q = r /\ InsertBatch(r) /\ ref = Head(plan[r]).ref)
      BY <1>11, HeldRefs
    <2>2. CASE Finish(r)
      <3>1. q # r /\ ref \in RefsHeld(q)
        BY <1>11, <2>2, HeldRefs
      <3>2. b \in batches \/ b \in work[r].batches
        BY <1>11, <2>2, FinishCommits
      <3>3. b \in work[r].batches => b.ref \in RefsHeld(r)
        BY DEF RefsHeld
      <3> QED
        BY <3>1, <3>2, <3>3 DEF RefsApart
    <2>3. CASE batches' = batches
      BY <2>1, <2>3, InsertedRefIsNew DEF RefsApart
    <2> QED
      BY <1>11, <2>2, <2>3, Commits
  <1>12. ASSUME NEW r \in Requests, Acts(r), NEW b \in batches', NEW c \in batches',
                b.ref = c.ref
         PROVE  b = c
    <2>1. CASE Finish(r)
      <3>1. batches' = batches \cup work[r].batches
        BY <2>1, FinishCommits
      <3>2. \A x \in work[r].batches : x.ref \in RefsHeld(r)
        BY DEF RefsHeld
      <3>3. \A x \in work[r].batches, y \in batches : x.ref # y.ref
        BY <3>2 DEF RefsApart
      <3>4. \A x, y \in work[r].batches : x.ref = y.ref => x = y
        BY DEF RefsApart, RefsOfItsOwn
      <3> QED
        BY <1>12, <3>1, <3>3, <3>4 DEF RefsApart
    <2>2. CASE batches' = batches
      BY <1>12, <2>2 DEF RefsApart
    <2> QED
      BY <1>12, <2>1, <2>2, Commits
  <1>13. ASSUME UNCHANGED <<local, batches>>
         PROVE  RefsApart'
    BY <1>13 DEF local, RefsApart, RefsOfItsOwn, RefsHeld
  <1>14. ASSUME NEW r \in Requests, Acts(r)
         PROVE  RefsApart'
    BY <1>1, <1>9, <1>10, <1>11, <1>12, <1>14 DEF RefsApart
  <1> QED
    BY <1>13, <1>14, NextCases DEF SetFault, vars, tables

-----------------------------------------------------------------------------
(* The keys of transactions, and the ledger. *)

\* A transaction gets no key but the one it writes, and keeps none when it ends.
LEMMA HeldKeys ==
  ASSUME TypeOK, \A r \in Requests : Placed(r), NEW r \in Requests, Acts(r)
  PROVE  /\ work'[r].transactions =
              (IF Finish(r) \/ \E code \in Codes \ {"ok"} : pc[r] # "idle" /\ Fail(r, code)
               THEN {}
               ELSE IF WriteTransaction(r)
                    THEN work[r].transactions
                           \cup {[key |-> Head(left[r]).key, run |-> call[r].run]}
                    ELSE work[r].transactions)
         /\ \A q \in Requests \ {r} : work'[q].transactions = work[q].transactions
  <1> DEFINE ends == Finish(r) \/ \E code \in Codes \ {"ok"} : pc[r] # "idle" /\ Fail(r, code)
             kept == work'[r].transactions = work[r].transactions
  <1>1. ASSUME \/ \E c \in Calls : Start(r, c)
               \/ BeginIngest(r) \/ CreateRun(r) \/ ReadConfig(r) \/ ResetRun(r)
               \/ ReplayBatch(r) \/ DecideToIngest(r)
        PROVE  kept
    BY <1>1, EarlySteps
  <1>2. ASSUME InsertBatch(r)
        PROVE  kept
    BY <1>2 DEF InsertBatch
  <1>3. ASSUME DuplicateEvent(r) \/ RejectEvent(r) \/ RecordEvent(r) \/ DecideToWrite(r)
        PROVE  kept
    BY <1>3, EventSteps
  <1>4. ASSUME CloseBatch(r)
        PROVE  kept
    BY <1>4 DEF TypeOK, Work, CloseBatch
  <1>5. ASSUME WriteTransaction(r)
        PROVE  /\ work'[r].transactions = work[r].transactions
                    \cup {[key |-> Head(left[r]).key, run |-> call[r].run]}
               /\ pc'[r] = "event"
    BY <1>5 DEF TypeOK, Work, WriteTransaction
  <1>6. ASSUME ends
        PROVE  work'[r].transactions = {} /\ pc'[r] = "done"
    BY <1>6, LastSteps DEF NoWork
  <1>7. ASSUME NEW q \in Requests \ {r}
        PROVE  work'[q].transactions = work[q].transactions
    BY <1>7, Others DEF Untouched
  <1>8. ends \/ WriteTransaction(r) \/ kept
    BY <1>1, <1>2, <1>3, <1>4, Zenon DEF Acts
  <1> HIDE DEF kept
  <1>9. work'[r].transactions =
              (IF ends THEN {}
               ELSE IF WriteTransaction(r)
                    THEN work[r].transactions
                           \cup {[key |-> Head(left[r]).key, run |-> call[r].run]}
                    ELSE work[r].transactions)
    <2>1. CASE ends
      BY <1>6, <2>1
    <2>2. CASE ~ends /\ WriteTransaction(r)
      BY <1>5, <2>2
    <2>3. CASE ~ends /\ ~WriteTransaction(r)
      BY <1>8, <2>3 DEF kept
    <2> QED
      BY <2>1, <2>2, <2>3
  <1> QED
    BY <1>7, <1>9

\* The key that is written is new.
LEMMA WrittenKeyIsNew ==
  ASSUME NEW r \in Requests, WriteTransaction(r), Delivering(r)
  PROVE  /\ \A t \in transactions : t.key # Head(left[r]).key
         /\ \A q \in Requests : Head(left[r]).key \notin KeysHeld(q)
  BY DEF WriteTransaction, KeyRefused, MayProceed, WaitsFor, Delivering

\* No two transactions get the same key.
LEMMA KeysApartStep ==
  ASSUME TypeOK, \A r \in Requests : Placed(r), KeysApart,
         \A r \in Requests : Delivering(r), [Next]_vars
  PROVE  KeysApart'
  <1>1. ASSUME NEW r \in Requests, Acts(r), NEW q \in Requests
        PROVE  \/ work'[q].transactions \subseteq work[q].transactions
               \/ /\ q = r /\ WriteTransaction(r)
                  /\ work'[q].transactions = work[q].transactions
                       \cup {[key |-> Head(left[r]).key, run |-> call[r].run]}
    BY <1>1, HeldKeys
  <1>2. ASSUME NEW r \in Requests, Acts(r), NEW q \in Requests
        PROVE  \/ KeysHeld(q)' \subseteq KeysHeld(q)
               \/ /\ q = r /\ WriteTransaction(r)
                  /\ KeysHeld(q)' \subseteq KeysHeld(q) \cup {Head(left[r]).key}
    BY <1>1, <1>2 DEF KeysHeld
  <1>3. ASSUME NEW r \in Requests, Finish(r)
        PROVE  KeysHeld(r)' = {}
    BY <1>3, LastSteps DEF KeysHeld, NoWork
  <1>4. ASSUME NEW r \in Requests, Acts(r), NEW q \in Requests,
               NEW t \in work'[q].transactions, NEW u \in work'[q].transactions,
               t.key = u.key
        PROVE  t = u
    <2>1. CASE work'[q].transactions \subseteq work[q].transactions
      BY <1>4, <2>1 DEF KeysApart
    <2>2. CASE /\ q = r /\ WriteTransaction(r)
               /\ work'[q].transactions = work[q].transactions
                    \cup {[key |-> Head(left[r]).key, run |-> call[r].run]}
      <3>1. \A x \in work[q].transactions : x.key # Head(left[r]).key
        BY <2>2, WrittenKeyIsNew DEF KeysHeld
      <3> QED
        BY <1>4, <2>2, <3>1 DEF KeysApart
    <2> QED
      BY <1>1, <1>4, <2>1, <2>2
  <1>5. ASSUME NEW r \in Requests, Acts(r), NEW q \in Requests, NEW key \in KeysHeld(q)',
               NEW p \in Requests \ {q}
        PROVE  key \notin KeysHeld(p)'
    <2>1. key \in KeysHeld(q) \/ (q = r /\ WriteTransaction(r) /\ key = Head(left[r]).key)
      BY <1>2, <1>5
    <2>2. key \in KeysHeld(p)' =>
            key \in KeysHeld(p) \/ (p = r /\ WriteTransaction(r) /\ key = Head(left[r]).key)
      BY <1>2, <1>5
    <2> QED
      BY <2>1, <2>2, WrittenKeyIsNew DEF KeysApart
  <1>6. ASSUME NEW r \in Requests, Acts(r), NEW q \in Requests, NEW key \in KeysHeld(q)',
               NEW t \in transactions'
        PROVE  t.key # key
    <2>1. key \in KeysHeld(q) \/ (q = r /\ WriteTransaction(r) /\ key = Head(left[r]).key)
      BY <1>2, <1>6
    <2>2. CASE Finish(r)
      <3>1. q # r
        BY <1>3, <1>6, <2>2
      <3>2. t \in transactions \/ t \in work[r].transactions
        BY <1>6, <2>2, FinishCommits
      <3>3. t \in work[r].transactions => t.key \in KeysHeld(r)
        BY DEF KeysHeld
      <3> QED
        BY <2>1, <3>1, <3>2, <3>3 DEF KeysApart
    <2>3. CASE transactions' = transactions
      BY <2>1, <2>3, WrittenKeyIsNew DEF KeysApart
    <2> QED
      BY <1>6, <2>2, <2>3, Commits
  <1>7. ASSUME NEW r \in Requests, Acts(r), NEW t \in transactions', NEW u \in transactions',
               t.key = u.key
        PROVE  t = u
    <2>1. CASE Finish(r)
      <3>1. transactions' = transactions \cup work[r].transactions
        BY <2>1, FinishCommits
      <3>2. \A x \in work[r].transactions, y \in transactions : x.key # y.key
        BY DEF KeysApart, KeysHeld
      <3> QED
        BY <1>7, <3>1, <3>2 DEF KeysApart
    <2>2. CASE transactions' = transactions
      BY <1>7, <2>2 DEF KeysApart
    <2> QED
      BY <1>7, <2>1, <2>2, Commits
  <1>8. ASSUME UNCHANGED <<local, transactions>>
        PROVE  KeysApart'
    BY <1>8 DEF local, KeysApart, KeysHeld
  <1>9. ASSUME NEW r \in Requests, Acts(r)
        PROVE  KeysApart'
    BY <1>4, <1>5, <1>6, <1>7, <1>9 DEF KeysApart
  <1> QED
    BY <1>8, <1>9, NextCases DEF SetFault, vars, tables

\* What a transaction has accepted it has seen in the ledger or written.
LEMMA DeliveringStep ==
  ASSUME TypeOK, \A r \in Requests : Placed(r), \A r \in Requests : Delivering(r), [Next]_vars
  PROVE  \A r \in Requests : Delivering(r)'
  <1>1. ASSUME NEW r \in Requests, Acts(r), NEW q \in Requests \ {r}
        PROVE  Delivering(q)'
    <2>1. Untouched(q)
      BY <1>1, Others
    <2>2. KeysHeld(q)' = KeysHeld(q) /\ AcceptedSoFar(q)' = AcceptedSoFar(q)
      BY <2>1 DEF Untouched, KeysHeld, AcceptedSoFar
    <2>3. transactions \subseteq transactions'
      BY <1>1, Commits, FinishCommits
    <2>4. KeysSeen(q) \subseteq KeysSeen(q)'
      BY <2>1, <2>3 DEF Untouched, KeysSeen
    <2> QED
      BY <2>1, <2>2, <2>4 DEF Untouched, Delivering
  <1>2. ASSUME NEW r \in Requests,
               \/ \E c \in Calls : Start(r, c)
               \/ BeginIngest(r) \/ CreateRun(r) \/ ReadConfig(r) \/ ResetRun(r)
               \/ ReplayBatch(r) \/ DecideToIngest(r)
        PROVE  Delivering(r)'
    <2>1. /\ transactions' = transactions /\ work'[r].batches = work[r].batches
          /\ work'[r].transactions = work[r].transactions
          /\ pc[r] \in {"idle", "begin", "lock", "open"}
          /\ pc'[r] \in {"begin", "lock", "open", "insert"}
      BY <1>2, EarlySteps
    <2>2. /\ KeysHeld(r)' = KeysHeld(r) /\ KeysSeen(r)' = KeysSeen(r)
          /\ AcceptedSoFar(r)' = AcceptedSoFar(r)
      BY <2>1 DEF KeysHeld, KeysSeen, AcceptedSoFar
    <2> QED
      BY <2>1, <2>2 DEF Delivering
  <1>3. ASSUME NEW r \in Requests, InsertBatch(r)
        PROVE  Delivering(r)'
    <2>1. /\ pc[r] = "insert" /\ pc'[r] = "event" /\ open'[r].events = {}
          /\ work' = work /\ transactions' = transactions
      BY <1>3 DEF TypeOK, InsertBatch, tables
    <2>2. Accepted(open[r])' = {}
      BY <2>1 DEF Accepted
    <2>3. /\ KeysHeld(r)' = KeysHeld(r) /\ KeysSeen(r)' = KeysSeen(r)
          /\ AcceptedSoFar(r)' = AcceptedSoFar(r)
      BY <2>1, <2>2 DEF KeysHeld, KeysSeen, AcceptedSoFar
    <2> QED
      BY <2>1, <2>3 DEF Delivering
  <1>4. ASSUME NEW r \in Requests,
               DuplicateEvent(r) \/ RejectEvent(r) \/ RecordEvent(r) \/ DecideToWrite(r)
        PROVE  Delivering(r)'
    <2> DEFINE key == Head(left[r]).key
               closed == AcceptedOf(work[r].batches)
    <2>1. /\ pc[r] = "event" /\ work' = work /\ transactions' = transactions
      BY <1>4, EventSteps DEF tables
    <2>2. PICK b \in Batch :
            /\ open' = [open EXCEPT ![r] = b]
            /\ \/ /\ pc' = pc /\ left' = [left EXCEPT ![r] = Tail(left[r])]
                  /\ Accepted(open[r]) \subseteq Accepted(b)
                  /\ Accepted(b) \subseteq Accepted(open[r]) \cup KeysSeen(r)
               \/ /\ pc' = [pc EXCEPT ![r] = "write"] /\ left' = left
                  /\ Head(left[r]).key \in Keys \ KeysSeen(r)
                  /\ Accepted(b) = Accepted(open[r]) \cup {Head(left[r]).key}
      BY <1>4, EventSteps
    <2>3. KeysHeld(r)' = KeysHeld(r) /\ KeysSeen(r)' = KeysSeen(r)
      BY <2>1 DEF KeysHeld, KeysSeen
    <2>4. open'[r] = b
      BY <2>2 DEF TypeOK
    <2>5. AcceptedSoFar(r) = closed \cup Accepted(open[r])
      BY <2>1 DEF AcceptedSoFar
    <2>6. KeysHeld(r) \subseteq KeysSeen(r)
      BY DEF KeysHeld, KeysSeen
    <2> HIDE DEF closed
    <2>7. CASE /\ pc' = pc
               /\ Accepted(open[r]) \subseteq Accepted(b)
               /\ Accepted(b) \subseteq Accepted(open[r]) \cup KeysSeen(r)
      <3>1. AcceptedSoFar(r)' = closed \cup Accepted(b)
        BY <2>1, <2>4, <2>7 DEF AcceptedSoFar, closed
      <3> QED
        BY <2>1, <2>3, <2>5, <2>7, <3>1 DEF Delivering
    <2>8. CASE /\ pc' = [pc EXCEPT ![r] = "write"] /\ left' = left
               /\ key \in Keys \ KeysSeen(r)
               /\ Accepted(b) = Accepted(open[r]) \cup {key}
      <3>1. pc'[r] = "write"
        BY <2>8 DEF TypeOK
      <3>2. AcceptedSoFar(r)' = closed \cup (Accepted(b) \ {key})
        BY <2>1, <2>4, <2>8, <3>1 DEF AcceptedSoFar, closed
      <3>3. AcceptedSoFar(r)' = closed \cup Accepted(open[r])
        <4>1. key \notin Accepted(open[r])
          BY <2>5, <2>8 DEF Delivering
        <4> QED
          BY <2>8, <3>2, <4>1
      <3>4. key \notin KeysHeld(r) /\ key \in Accepted(b)
        BY <2>6, <2>8
      <3> QED
        BY <2>3, <2>4, <2>5, <2>8, <3>3, <3>4 DEF Delivering
    <2> QED
      BY <2>2, <2>7, <2>8
  <1>5. ASSUME NEW r \in Requests, WriteTransaction(r)
        PROVE  Delivering(r)'
    <2> DEFINE key == Head(left[r]).key
               row == [key |-> key, run |-> call[r].run]
               closed == AcceptedOf(work[r].batches)
    <2>1. /\ pc[r] = "write" /\ pc'[r] = "event" /\ open' = open
          /\ transactions' = transactions
          /\ work'[r].batches = work[r].batches
          /\ work'[r].transactions = work[r].transactions \cup {row}
      BY <1>5 DEF TypeOK, Work, WriteTransaction, tables
    <2>2. row.key = key
      OBVIOUS
    <2> HIDE DEF row
    <2>3. KeysHeld(r)' = KeysHeld(r) \cup {key} /\ KeysSeen(r)' = KeysSeen(r) \cup {key}
      BY <2>1, <2>2 DEF KeysHeld, KeysSeen
    <2>4. /\ AcceptedSoFar(r) = closed \cup (Accepted(open[r]) \ {key})
          /\ AcceptedSoFar(r)' = closed \cup Accepted(open[r])
      BY <2>1 DEF AcceptedSoFar
    <2>5. key \in Accepted(open[r])
      BY <2>1 DEF Delivering
    <2> HIDE DEF key, closed
    <2> QED
      BY <2>1, <2>3, <2>4, <2>5 DEF Delivering
  <1>6. ASSUME NEW r \in Requests, CloseBatch(r)
        PROVE  Delivering(r)'
    <2> DEFINE closed == AcceptedOf(work[r].batches)
    <2>1. open[r] # None /\ open[r] \in Batch
      BY <1>6 DEF CloseBatch, Placed, TypeOK
    <2>2. Closed(open[r]).events = open[r].events
      BY <2>1, ClosedFields
    <2>3. Accepted(Closed(open[r])) = Accepted(open[r])
      BY <2>2 DEF Accepted
    <2>4. /\ pc[r] = "event" /\ pc'[r] = "open" /\ transactions' = transactions
          /\ work'[r].batches = work[r].batches \cup {Closed(open[r])}
          /\ work'[r].transactions = work[r].transactions
      BY <1>6 DEF TypeOK, Work, CloseBatch, tables
    <2>5. AcceptedSoFar(r) = closed \cup Accepted(open[r])
      BY <2>4 DEF AcceptedSoFar
    <2>6. AcceptedSoFar(r)' = closed \cup Accepted(open[r])
      <3> DEFINE c == Closed(open[r])
      <3>1. AcceptedSoFar(r)' = AcceptedOf(work[r].batches \cup {c})
        BY <2>4 DEF AcceptedSoFar
      <3>2. Accepted(c) = Accepted(open[r])
        BY <2>3
      <3> HIDE DEF c
      <3>3. AcceptedOf(work[r].batches \cup {c}) = closed \cup AcceptedOf({c})
        BY AcceptedOfUnion
      <3> QED
        BY <3>1, <3>2, <3>3, AcceptedOfOne
    <2>7. KeysHeld(r)' = KeysHeld(r) /\ KeysSeen(r)' = KeysSeen(r)
      BY <2>4 DEF KeysHeld, KeysSeen
    <2> QED
      BY <2>4, <2>5, <2>6, <2>7 DEF Delivering
  <1>7. ASSUME NEW r \in Requests,
               Finish(r) \/ \E code \in Codes \ {"ok"} : pc[r] # "idle" /\ Fail(r, code)
        PROVE  Delivering(r)'
    <2>1. pc'[r] = "done" /\ work'[r] = NoWork
      BY <1>7, LastSteps
    <2>2. KeysHeld(r)' = {} /\ AcceptedSoFar(r)' = {}
      BY <2>1, AcceptedOfNone DEF KeysHeld, AcceptedSoFar, NoWork
    <2> QED
      BY <2>1, <2>2 DEF Delivering
  <1>8. ASSUME UNCHANGED <<local, transactions>>, NEW q \in Requests
        PROVE  Delivering(q)'
    BY <1>8 DEF local, Delivering, KeysHeld, KeysSeen, AcceptedSoFar
  <1>9. ASSUME NEW r \in Requests, Acts(r)
        PROVE  Delivering(r)'
    BY <1>2, <1>3, <1>4, <1>5, <1>6, <1>7, <1>9, Zenon DEF Acts
  <1> QED
    BY <1>1, <1>8, <1>9, NextCases DEF SetFault, vars, tables

\* What is accepted when a call ends, and what its transaction brings.
LEMMA FinishDelivers ==
  ASSUME NEW r \in Requests, Finish(r), Delivering(r)
  PROVE  /\ KeysHeld(r) \subseteq AcceptedOf(work[r].batches)
         /\ AcceptedOf(work[r].batches) \subseteq {t.key : t \in transactions} \cup KeysHeld(r)
  <1>1. pc[r] = "open"
    BY FinishCommits
  <1>2. AcceptedSoFar(r) = AcceptedOf(work[r].batches)
    BY <1>1 DEF AcceptedSoFar
  <1>3. KeysSeen(r) = {t.key : t \in transactions} \cup KeysHeld(r)
    BY DEF KeysSeen, KeysHeld
  <1> QED
    BY <1>2, <1>3 DEF Delivering

\* The ledger stays what was accepted.
LEMMA LedgerStep ==
  ASSUME \A r \in Requests : Delivering(r), LedgerIsWhatWasAccepted, [Next]_vars
  PROVE  LedgerIsWhatWasAccepted'
  <1>1. ASSUME NEW r \in Requests, Finish(r)
        PROVE  LedgerIsWhatWasAccepted'
    <2> DEFINE new == AcceptedOf(work[r].batches)
    <2>1. AcceptedOf(batches') = AcceptedOf(batches) \cup new
      BY <1>1, FinishCommits, AcceptedOfUnion
    <2>2. {t.key : t \in transactions'} = {t.key : t \in transactions} \cup KeysHeld(r)
      BY <1>1, FinishCommits DEF KeysHeld
    <2>3. KeysHeld(r) \subseteq new /\ new \subseteq {t.key : t \in transactions} \cup KeysHeld(r)
      BY <1>1, FinishDelivers
    <2> HIDE DEF new
    <2>4. {t.key : t \in transactions} = AcceptedOf(batches)
      BY DEF LedgerIsWhatWasAccepted, AcceptedOf
    <2>5. {t.key : t \in transactions'} = AcceptedOf(batches')
      BY <2>1, <2>2, <2>3, <2>4
    <2> QED
      BY <2>5, Zenon DEF LedgerIsWhatWasAccepted, AcceptedOf, Accepted
  <1>2. ASSUME UNCHANGED <<batches, transactions>>
        PROVE  LedgerIsWhatWasAccepted'
    BY <1>2 DEF LedgerIsWhatWasAccepted
  <1> QED
    BY <1>1, <1>2, NextCases, Commits DEF SetFault, vars, tables

-----------------------------------------------------------------------------
(* The answers. *)

\* The response under way, and the answer, repeat a batch.
LEMMA AnsweringStep ==
  ASSUME TypeOK, \A r \in Requests : Placed(r), \A r \in Requests : Answering(r), [Next]_vars
  PROVE  \A r \in Requests : Answering(r)'
  <1>1. ASSUME NEW r \in Requests, Acts(r), NEW q \in Requests \ {r}
        PROVE  Answering(q)'
    <2>1. batches \subseteq batches' /\ Untouched(q)
      BY <1>1, Commits, FinishCommits, Others
    <2>2. BatchesSeen(q) \subseteq BatchesSeen(q)'
      BY <2>1 DEF BatchesSeen, Untouched
    <2> QED
      BY <2>1, <2>2 DEF Untouched, Answering
  <1>2. ASSUME NEW r \in Requests, NEW c \in Calls, Start(r, c)
        PROVE  Answering(r)'
    BY <1>2 DEF Start, Answering, BatchesSeen, tables
  <1>3. ASSUME NEW r \in Requests,
               \/ BeginIngest(r) \/ CreateRun(r) \/ ReadConfig(r) \/ ResetRun(r)
               \/ DecideToIngest(r)
        PROVE  Answering(r)'
    <2>1. /\ UNCHANGED <<batches, reply>> /\ work'[r].batches = work[r].batches
      BY <1>3, EarlySteps
    <2>2. answer' = answer
      BY <1>3 DEF BeginIngest, CreateRun, ReadConfig, ResetRun, DecideToIngest
    <2> QED
      BY <2>1, <2>2 DEF Answering, BatchesSeen
  <1>4. ASSUME NEW r \in Requests, ReplayBatch(r)
        PROVE  Answering(r)'
    <2>1. PICK b \in BatchesSeen(r) : answer' = [answer EXCEPT ![r] = AnswerFor(b)]
      BY <1>4 DEF ReplayBatch
    <2>2. UNCHANGED <<batches, work, reply>>
      BY <1>4 DEF ReplayBatch, tables
    <2> QED
      BY <2>1, <2>2 DEF TypeOK, Answering, BatchesSeen
  <1>5. ASSUME NEW r \in Requests, InsertBatch(r)
        PROVE  Answering(r)'
    BY <1>5 DEF InsertBatch, Answering, BatchesSeen, tables
  <1>6. ASSUME NEW r \in Requests,
               DuplicateEvent(r) \/ RejectEvent(r) \/ RecordEvent(r) \/ DecideToWrite(r)
        PROVE  Answering(r)'
    BY <1>6, EventSteps DEF Answering, BatchesSeen, tables
  <1>7. ASSUME NEW r \in Requests, WriteTransaction(r)
        PROVE  Answering(r)'
    <2>1. UNCHANGED <<batches, answer, reply>> /\ work'[r].batches = work[r].batches
      BY <1>7 DEF TypeOK, Work, WriteTransaction, tables
    <2> QED
      BY <2>1 DEF Answering, BatchesSeen
  <1>8. ASSUME NEW r \in Requests, CloseBatch(r)
        PROVE  Answering(r)'
    <2>1. /\ UNCHANGED <<batches, reply>> /\ answer'[r] = AnswerFor(Closed(open[r]))
          /\ work'[r].batches = work[r].batches \cup {Closed(open[r])}
      BY <1>8 DEF TypeOK, Work, CloseBatch, tables
    <2> QED
      BY <2>1 DEF Answering, BatchesSeen
  <1>9. ASSUME NEW r \in Requests, Finish(r)
        PROVE  Answering(r)'
    <2>1. batches' = BatchesSeen(r) /\ answer'[r] = None
      BY <1>9, FinishCommits, LastSteps DEF BatchesSeen
    <2>2. answer[r] # None
      BY <1>9, FinishCommits DEF Placed
    <2>3. reply'[r].answer = answer[r]
      BY <1>9 DEF TypeOK, Finish, Answered
    <2> QED
      BY <2>1, <2>2, <2>3 DEF Answering
  <1>10. ASSUME NEW r \in Requests, NEW code \in Codes \ {"ok"}, Fail(r, code)
         PROVE  Answering(r)'
    BY <1>10 DEF TypeOK, Fail, Answered, Answering
  <1>11. ASSUME UNCHANGED <<local, batches>>, NEW q \in Requests
         PROVE  Answering(q)'
    BY <1>11 DEF local, Answering, BatchesSeen
  <1>12. ASSUME NEW r \in Requests, Acts(r)
         PROVE  Answering(r)'
    BY <1>2, <1>3, <1>4, <1>5, <1>6, <1>7, <1>8, <1>9, <1>10, <1>12, Zenon DEF Acts
  <1> QED
    BY <1>1, <1>11, <1>12, NextCases DEF SetFault, vars, tables

-----------------------------------------------------------------------------
(* The theorems. *)

\* The invariant is inductive: what the requests hold and what the tables hold
\* agree in every reachable state.
THEOREM Invariance == Spec => []IInv
  <1>1. Init => IInv
    <2> SUFFICES ASSUME Init PROVE IInv
      OBVIOUS
    <2>1. NoWork \in Work /\ NoWork.batches = {} /\ NoWork.transactions = {}
      BY DEF NoWork, Work
    <2>2. TypeOK
      <3>1. [status |-> "completed", resets |-> 0] \in RunRow
        BY DEF RunRow
      <3>2. runs \in [Runs -> RunRow \cup {None}]
        BY <3>1 DEF Init
      <3>3. /\ plan \in [Requests -> Seq(Delivery)] /\ left \in [Requests -> Seq(Event)]
        BY DEF Init
      <3> QED
        BY <2>1, <3>2, <3>3 DEF Init, TypeOK
    <2>3. ASSUME NEW r \in Requests
          PROVE  Placed(r) /\ OfItsRun(r) /\ Counting(r) /\ Delivering(r) /\ Answering(r)
      <3>1. /\ pc[r] = "idle" /\ open[r] = None /\ work[r] = NoWork
            /\ answer[r] = None /\ reply[r] = None
        BY DEF Init
      <3>2. KeysHeld(r) = {} /\ AcceptedSoFar(r) = {}
        BY <2>1, <3>1, AcceptedOfNone DEF KeysHeld, AcceptedSoFar
      <3> QED
        BY <2>1, <3>1, <3>2
           DEF Placed, OfItsRun, Counting, Delivering, Answering
    <2>4. RefsApart
      BY <2>1 DEF Init, RefsApart, RefsOfItsOwn, RefsHeld
    <2>5. KeysApart
      BY <2>1 DEF Init, KeysApart, KeysHeld
    <2>6. LedgerIsWhatWasAccepted /\ \A b \in batches : Told(b)
      BY DEF Init, LedgerIsWhatWasAccepted
    <2> QED
      BY <2>2, <2>3, <2>4, <2>5, <2>6 DEF IInv
  <1>2. IInv /\ [Next]_vars => IInv'
    <2> SUFFICES ASSUME IInv, [Next]_vars PROVE IInv'
      OBVIOUS
    <2>1. TypeOK' /\ \A r \in Requests : Placed(r)'
      BY TypeStep, PlacedStep DEF IInv
    <2>2. /\ \A r \in Requests : OfItsRun(r)'
          /\ \A r \in Requests : Counting(r)'
          /\ \A b \in batches' : Told(b)
      BY OfItsRunStep, CountingStep DEF IInv
    <2>3. RefsApart' /\ KeysApart'
      BY RefsApartStep, KeysApartStep DEF IInv
    <2>4. (\A r \in Requests : Delivering(r)') /\ LedgerIsWhatWasAccepted'
      BY DeliveringStep, LedgerStep DEF IInv
    <2>5. \A r \in Requests : Answering(r)'
      BY AnsweringStep DEF IInv
    <2>6. (\A b \in batches : Told(b))'
      BY <2>2 DEF Told, Tally, Has, Health
    <2> QED
      BY <2>1, <2>2, <2>3, <2>4, <2>5, <2>6 DEF IInv
  <1> QED
    BY <1>1, <1>2, PTL DEF Spec

\* Every variable keeps its type: batches with counts and a status the schema
\* allows, at most one call, one open batch and one answer per request.
THEOREM TypeCorrect == Spec => []TypeOK
  BY Invariance, PTL DEF IInv

\* The counts, the status and the health of a committed batch are those of its
\* events (pipeline.py and record_batch_assessment).
THEOREM CountsCorrect == Spec => []CountsMatchEvidence
  <1>1. IInv => CountsMatchEvidence
    <2> SUFFICES ASSUME IInv, NEW b \in batches
                 PROVE  /\ b.received + b.rejected = b.expected
                        /\ b.received > 0 <=> Has(b, "normalized")
                        /\ b.rejected > 0 <=> Has(b, "rejected")
                        /\ b.status = (IF Has(b, "normalized") THEN "normalized" ELSE "rejected")
                        /\ b.health = "missing" <=> ~Has(b, "normalized")
                        /\ b.health = "fresh" <=> ~Has(b, "rejected")
      BY DEF CountsMatchEvidence
    <2>1. b.received \in Nat /\ b.rejected \in Nat /\ b.expected \in Nat
      BY DEF IInv, TypeOK, Batch
    <2>2. Told(b)
      BY DEF IInv
    <2>3. /\ b.received > 0 <=> b.rejected # b.expected
          /\ b.rejected > 0 <=> b.received # b.expected
          /\ b.received > 0 <=> Has(b, "normalized")
          /\ b.rejected > 0 <=> Has(b, "rejected")
          /\ b.received + b.rejected = b.expected
      BY <2>1, <2>2 DEF Told, Tally
    <2>4. b.status = (IF Has(b, "normalized") THEN "normalized" ELSE "rejected")
      BY <2>2, <2>3 DEF Told
    <2>5. b.health = Health(b)
      BY <2>2 DEF Told
    <2>6. CASE b.rejected = b.expected
      <3>1. b.health = "missing" /\ b.rejected > 0
        BY <2>1, <2>2, <2>5, <2>6 DEF Health, Told, Tally
      <3> QED
        BY <2>3, <2>4, <2>6, <3>1
    <2>7. CASE b.rejected # b.expected /\ b.rejected > 0
      <3>1. b.health = "stale"
        BY <2>5, <2>7 DEF Health
      <3> QED
        BY <2>3, <2>4, <2>7, <3>1
    <2>8. CASE b.rejected # b.expected /\ ~(b.rejected > 0)
      <3>1. b.health = "fresh"
        BY <2>5, <2>8 DEF Health
      <3> QED
        BY <2>3, <2>4, <2>8, <3>1
    <2> QED
      BY <2>6, <2>7, <2>8
  <1> QED
    BY <1>1, Invariance, PTL

\* The transactions in the ledger are those that committed batches accepted,
\* whoever delivered them first (write_transaction).
THEOREM LedgerCorrect == Spec => []LedgerIsWhatWasAccepted
  BY Invariance, PTL DEF IInv

\* An ok answer repeats a batch in the tables, also when the batch was ingested
\* by an earlier call (ingest_batch).
THEOREM AnswersCorrect == Spec => []AnswersMatchEvidence
  <1>1. IInv => AnswersMatchEvidence
    BY DEF IInv, Answering, AnswersMatchEvidence
  <1> QED
    BY <1>1, Invariance, PTL

\* To the readers of the ledger, concurrent ingestion event by event looks like
\* whole deliveries, each of what the ledger lacks.
THEOREM IngestionImplementsLedger == Spec => ImplementsLedger
  <1>1. Init => Ledger!Init
    BY DEF Init, Ledger!Init
  <1>2. ASSUME IInv, [Next]_vars
        PROVE  [Ledger!Next]_<<batches, transactions>>
    <2>1. ASSUME NEW r \in Requests, Finish(r)
          PROVE  Ledger!Next
      <3>1. /\ batches' = batches \cup work[r].batches
            /\ transactions' = transactions \cup work[r].transactions
        BY <2>1, FinishCommits
      <3>2. \A b \in work[r].batches, c \in batches : b.ref # c.ref
        BY <1>2 DEF IInv, RefsApart, RefsHeld
      <3>3. \A t \in work[r].transactions, u \in transactions : t.key # u.key
        BY <1>2 DEF IInv, KeysApart, KeysHeld
      <3>4. /\ batches' \ batches = work[r].batches
            /\ transactions' \ transactions = work[r].transactions
        BY <3>1, <3>2, <3>3
      <3>5. work[r].batches \subseteq Batch /\ work[r].transactions \subseteq Row
        BY <1>2 DEF IInv, TypeOK, Work
      <3>6. /\ \A b, c \in work[r].batches : b.ref = c.ref => b = c
            /\ \A t, u \in work[r].transactions : t.key = u.key => t = u
        BY <1>2 DEF IInv, RefsApart, RefsOfItsOwn, KeysApart
      <3>7. \A b \in work[r].batches, t \in work[r].transactions : b.run = t.run
        BY <1>2 DEF IInv, OfItsRun
      <3>8. {t.key : t \in work[r].transactions} =
              AcceptedOf(work[r].batches) \ {t.key : t \in transactions}
        <4> DEFINE new == AcceptedOf(work[r].batches)
                   ledger == {t.key : t \in transactions}
        <4>1. KeysHeld(r) \subseteq new /\ new \subseteq ledger \cup KeysHeld(r)
          BY <1>2, <2>1, FinishDelivers DEF IInv
        <4>2. KeysHeld(r) = {t.key : t \in work[r].transactions}
          BY DEF KeysHeld
        <4>3. KeysHeld(r) \cap ledger = {}
          BY <3>3 DEF KeysHeld
        <4> HIDE DEF new, ledger
        <4>4. KeysHeld(r) = new \ ledger
          BY <4>1, <4>3
        <4> QED
          BY <4>2, <4>4 DEF new, ledger
      <3>9. /\ Ledger!RefsOf(work[r].batches) \cap Ledger!RefsOf(batches) = {}
            /\ Ledger!OnePerRef(work[r].batches) /\ Ledger!OnePerKey(work[r].transactions)
        BY <3>2, <3>6 DEF Ledger!RefsOf, Ledger!OnePerRef, Ledger!OnePerKey
      <3>10. Ledger!KeysOf(work[r].transactions) =
               Ledger!AcceptedBy(work[r].batches) \ Ledger!KeysOf(transactions)
        BY <3>8 DEF Ledger!KeysOf, Ledger!AcceptedBy, AcceptedOf
      <3>11. Ledger!Deliverable(work[r].batches, work[r].transactions)
        BY <3>5, <3>7, <3>9, <3>10 DEF Ledger!Deliverable
      <3> QED
        BY <3>1, <3>4, <3>11 DEF Ledger!Next
    <2>2. CASE UNCHANGED <<batches, transactions>>
      BY <2>2
    <2> QED
      BY <1>2, <2>1, <2>2, NextCases, Commits DEF SetFault, vars, tables
  <1> QED
    BY <1>1, <1>2, Invariance, PTL DEF Spec, ImplementsLedger, Ledger!Spec

-----------------------------------------------------------------------------
(* Runs that arrive whole. *)

\* The references create_run makes from the seed of a run and its id.
IsNameOf(ref, run) == ref.source = SeedOf[run] /\ ref.suffix = run

NamesOf(run) ==
  {Generation(run, {}, run)[i].ref : i \in DOMAIN Generation(run, {}, run)}

\* The hypothesis: no feed sends a batch under a reference that the creation of
\* a run makes, which ends in an id that is new (-RUN-<run_id>, run_service.py:256).
FeedsNameTheirOwn ==
  \A c \in Calls : c.kind = "ingest" =>
    \A run \in Runs \ Loaded : ~IsNameOf(c.delivery.ref, run)

\* The references a request has still to ingest, and those it has ingested.
PlanRefs(r) == {plan[r][i].ref : i \in DOMAIN plan[r]}

WorkRefs(r) == {b.ref : b \in work[r].batches}

\* Nothing of a run is there before its row, and everything with it.
Whole(run) ==
  IF runs[run] = None
  THEN /\ faults[run] = {}
       /\ \A b \in batches : b.run # run /\ ~IsNameOf(b.ref, run)
  ELSE /\ runs[run].status = "completed"
       /\ {b.ref : b \in {x \in batches : IsNameOf(x.ref, run)}} = NamesOf(run)

\* The names of a run come from the request that creates it.
NamesKept(r) ==
  \A ref \in PlanRefs(r) \cup WorkRefs(r) : \A run \in Runs \ Loaded :
    IsNameOf(ref, run) => call[r].kind = "create" /\ call[r].run = run

\* A creation is the only one of its run, which nobody sees before it ends, and
\* has all its batches behind or before it.
Creating(r) ==
  (pc[r] # "idle" /\ call[r].kind = "create") =>
    /\ call[r].run \notin Loaded
    /\ \A q \in Requests \ {r} : call[q] # call[r]
    /\ pc[r] # "done" => runs[call[r].run] = None
    /\ pc[r] \in {"open", "insert", "event", "write"} =>
         /\ work[r].run # None
         /\ WorkRefs(r) \cup PlanRefs(r) = NamesOf(call[r].run)

\* A call that has a batch has the row of its run.
HasRow(r) ==
  /\ (pc[r] # "idle" /\ call[r].kind = "ingest") => work[r].run = None
  /\ (pc[r] \notin {"idle", "begin", "done"} /\ call[r].kind = "reset") =>
       runs[call[r].run] # None
  /\ (open[r] # None \/ work[r].batches # {}) =>
       runs[call[r].run] # None \/ work[r].run # None

Planned(r) ==
  /\ pc[r] \in {"idle", "begin", "lock", "done"} => plan[r] = <<>>
  /\ pc[r] = "lock" => call[r].kind = "reset"
  /\ open[r] # None => open[r].ref = Head(plan[r]).ref

Arriving(r) == Planned(r) /\ NamesKept(r) /\ Creating(r) /\ HasRow(r)


\* A name says whose it is.
LEMMA GenerationNames ==
  ASSUME NEW run, NEW enabled, NEW suffix
  PROVE  \A i \in DOMAIN Generation(run, enabled, suffix) :
           /\ Generation(run, enabled, suffix)[i].ref.source = SeedOf[run]
           /\ Generation(run, enabled, suffix)[i].ref.suffix = suffix
  <1> DEFINE made == Generated[SeedOf[run]][enabled]
             at(i) == [ref |-> [source |-> SeedOf[run], index |-> made[i].index,
                                suffix |-> suffix],
                       events |-> made[i].events]
  <1>1. Generation(run, enabled, suffix) = [i \in DOMAIN made |-> at(i)]
    BY DEF Generation
  <1>2. \A i : at(i).ref.source = SeedOf[run] /\ at(i).ref.suffix = suffix
    OBVIOUS
  <1> HIDE DEF at, made
  <1> QED
    BY <1>1, <1>2

LEMMA NamesAreNames ==
  ASSUME NEW run, NEW ref \in NamesOf(run)
  PROVE  IsNameOf(ref, run)
  <1>1. PICK i \in DOMAIN Generation(run, {}, run) : ref = Generation(run, {}, run)[i].ref
    BY DEF NamesOf
  <1> QED
    BY <1>1, GenerationNames DEF IsNameOf

\* The references of a plan are those of its head and of its tail.
LEMMA TailRefs ==
  ASSUME NEW S, NEW s \in Seq(S), s # <<>>
  PROVE  {s[i].ref : i \in DOMAIN s} =
           {Head(s).ref} \cup {Tail(s)[i].ref : i \in DOMAIN Tail(s)}
  <1>1. /\ Len(s) \in Nat /\ Len(s) > 0 /\ DOMAIN s = 1..Len(s) /\ Head(s) = s[1]
        /\ DOMAIN Tail(s) = 1..(Len(s) - 1)
        /\ \A i \in 1..(Len(s) - 1) : Tail(s)[i] = s[i + 1]
    OBVIOUS
  <1>2. ASSUME NEW i \in DOMAIN s
        PROVE  s[i].ref \in {Head(s).ref} \cup {Tail(s)[j].ref : j \in DOMAIN Tail(s)}
    <2>1. CASE i = 1
      BY <1>1, <2>1
    <2>2. CASE i # 1
      <3>1. i - 1 \in DOMAIN Tail(s) /\ Tail(s)[i - 1] = s[i]
        BY <1>1, <2>2
      <3> QED
        BY <3>1
    <2> QED
      BY <2>1, <2>2
  <1>3. 1 \in DOMAIN s /\ Head(s).ref = s[1].ref
    BY <1>1
  <1>4. ASSUME NEW j \in DOMAIN Tail(s)
        PROVE  j + 1 \in DOMAIN s /\ Tail(s)[j].ref = s[j + 1].ref
    BY <1>1
  <1> QED
    BY <1>2, <1>3, <1>4

\* Two calls that create one run are one call.
LEMMA CreationsOfARun ==
  ASSUME NEW c \in Calls, NEW d \in Calls, c.kind = "create", d.kind = "create", c.run = d.run
  PROVE  c = d
  BY CallsAssumption DEF CallType

\* Only the end of a call changes a table: it adds its batches and, if it has
\* inserted or locked the row of its run, leaves it completed.
LEMMA TablesChange ==
  ASSUME TypeOK, NEW r \in Requests, Acts(r)
  PROVE  \/ /\ Finish(r) /\ faults' = faults
            /\ batches' = batches \cup work[r].batches
            /\ \/ work[r].run = None /\ runs' = runs
               \/ /\ work[r].run # None
                  /\ runs' = [runs EXCEPT ![call[r].run] =
                                [work[r].run EXCEPT !.status = "completed"]]
                  /\ [work[r].run EXCEPT !.status = "completed"] \in RunRow
         \/ UNCHANGED <<runs, faults, batches>>
  <1>1. ASSUME Finish(r)
        PROVE  /\ faults' = faults /\ batches' = batches \cup work[r].batches
               /\ \/ work[r].run = None /\ runs' = runs
                  \/ /\ work[r].run # None
                     /\ runs' = [runs EXCEPT ![call[r].run] =
                                   [work[r].run EXCEPT !.status = "completed"]]
                     /\ [work[r].run EXCEPT !.status = "completed"] \in RunRow
    <2>1. work[r].run \in RunRow \cup {None}
      BY DEF TypeOK, Work
    <2>2. work[r].run \in RunRow => [work[r].run EXCEPT !.status = "completed"] \in RunRow
      BY DEF RunRow
    <2>3. faults' = faults /\ batches' = batches \cup work[r].batches
      BY <1>1 DEF Finish
    <2>4. runs' = IF work[r].run = None THEN runs
                  ELSE [runs EXCEPT ![call[r].run] = [work[r].run EXCEPT !.status = "completed"]]
      BY <1>1 DEF Finish
    <2> QED
      BY <2>1, <2>2, <2>3, <2>4
  <1>2. ASSUME NEW c \in Calls, Start(r, c)
        PROVE  UNCHANGED tables
    BY <1>2 DEF Start
  <1>3. ASSUME \/ BeginIngest(r) \/ CreateRun(r) \/ ReadConfig(r) \/ ResetRun(r)
               \/ ReplayBatch(r) \/ DecideToIngest(r) \/ InsertBatch(r)
        PROVE  UNCHANGED tables
    BY <1>3 DEF BeginIngest, CreateRun, ReadConfig, ResetRun, ReplayBatch, DecideToIngest,
       InsertBatch
  <1>4. ASSUME \/ DuplicateEvent(r) \/ RejectEvent(r) \/ RecordEvent(r) \/ DecideToWrite(r)
               \/ WriteTransaction(r) \/ CloseBatch(r)
        PROVE  UNCHANGED tables
    BY <1>4 DEF DuplicateEvent, RejectEvent, RecordEvent, DecideToWrite, WriteTransaction,
       CloseBatch
  <1>5. ASSUME \E code \in Codes \ {"ok"} : pc[r] # "idle" /\ Fail(r, code)
        PROVE  UNCHANGED tables
    BY <1>5 DEF Fail
  <1>6. UNCHANGED tables => UNCHANGED <<runs, faults, batches>>
    BY DEF tables
  <1> QED
    BY <1>1, <1>2, <1>3, <1>4, <1>5, <1>6, Zenon DEF Acts

WInv ==
  /\ \A run \in Runs \ Loaded : Whole(run)
  /\ \A run \in Loaded : runs[run] # None
  /\ \A r \in Requests : Arriving(r)

\* A run that is there stays; one that is not, and that r creates, can only
\* come with the end of r.
LEMMA RunsStay ==
  ASSUME IInv, WInv, NEW r \in Requests, Acts(r)
  PROVE  /\ \A run \in Runs : runs[run] # None => runs'[run] # None
         /\ \A q \in Requests \ {r} :
              (pc[q] \notin {"idle", "done"} /\ call[q].kind = "create") =>
                runs'[call[q].run] = None
  <1>1. CASE UNCHANGED <<runs, faults, batches>>
    BY <1>1 DEF WInv, Arriving, Creating
  <1>2. CASE /\ Finish(r)
             /\ \/ work[r].run = None /\ runs' = runs
                \/ /\ work[r].run # None
                   /\ runs' = [runs EXCEPT ![call[r].run] =
                                 [work[r].run EXCEPT !.status = "completed"]]
                   /\ [work[r].run EXCEPT !.status = "completed"] \in RunRow
    <2>1. \A run \in Runs : runs[run] # None => runs'[run] # None
      BY <1>2, NoneAssumption DEF IInv, TypeOK
    <2>2. ASSUME NEW q \in Requests \ {r}, pc[q] \notin {"idle", "done"},
                 call[q].kind = "create"
          PROVE  runs'[call[q].run] = None
      <3>1. /\ runs[call[q].run] = None /\ call[q] # call[r]
            /\ call[q] \in Calls /\ call[r] \in Calls /\ pc[r] = "open"
        BY <1>2, <2>2, FinishCommits DEF WInv, Arriving, Creating, IInv, Placed
      <3>2. work[r].run # None => call[q].run # call[r].run
        <4> SUFFICES ASSUME work[r].run # None, call[q].run = call[r].run
                     PROVE  FALSE
          OBVIOUS
        <4>1. call[r].kind # "ingest"
          BY <3>1 DEF WInv, Arriving, HasRow
        <4>2. call[r].kind # "create"
          BY <2>2, <3>1, CreationsOfARun
        <4>3. call[r].kind # "reset"
          BY <3>1 DEF WInv, Arriving, HasRow
        <4> QED
          BY <3>1, <4>1, <4>2, <4>3, CallFields
      <3>3. call[q].run \in Runs /\ call[r].run \in Runs
        BY <3>1, CallFields
      <3> QED
        BY <1>2, <3>1, <3>2, <3>3 DEF IInv, TypeOK
    <2> QED
      BY <2>1, <2>2
  <1> QED
    BY <1>1, <1>2, TablesChange DEF IInv

\* A request that a step leaves alone goes on arriving.
LEMMA ArrivingStands ==
  ASSUME IInv, WInv, NEW r \in Requests, Acts(r), NEW q \in Requests \ {r}
  PROVE  Arriving(q)'
  <1>1. Untouched(q)
    BY Others DEF IInv
  <1>2. /\ pc'[q] = pc[q] /\ call'[q] = call[q] /\ plan'[q] = plan[q]
        /\ open'[q] = open[q] /\ work'[q] = work[q]
    BY <1>1 DEF Untouched
  <1>3. PlanRefs(q)' = PlanRefs(q) /\ WorkRefs(q)' = WorkRefs(q)
    BY <1>2 DEF PlanRefs, WorkRefs
  <1>4. Arriving(q)
    BY DEF WInv
  <1>5. Planned(q)' /\ NamesKept(q)'
    BY <1>2, <1>3, <1>4 DEF Arriving, Planned, NamesKept, IsNameOf
  <1>6. (pc[q] # "idle" /\ call[q].kind = "create") => call'[r] # call[q]
    <2>1. call'[r] = call[r] \/ \E c \in Calls : Start(r, c)
      BY EarlySteps, LastSteps, EventSteps
         DEF IInv, Acts, BeginIngest, CreateRun, ReadConfig, ResetRun, ReplayBatch,
             DecideToIngest, InsertBatch, WriteTransaction, CloseBatch
    <2>2. ASSUME NEW c \in Calls, Start(r, c), call[q].kind = "create"
          PROVE  call'[r] # call[q]
      BY <2>2 DEF Start, IInv, TypeOK
    <2>3. (pc[q] # "idle" /\ call[q].kind = "create") => call[r] # call[q]
      BY <1>4 DEF Arriving, Creating
    <2> QED
      BY <2>1, <2>2, <2>3
  <1>7. Creating(q)'
    <2>1. \A p \in Requests \ {r, q} : call'[p] = call[p]
      BY Others DEF IInv, Untouched
    <2> QED
      BY <1>2, <1>3, <1>4, <1>6, <2>1, RunsStay DEF Arriving, Creating
  <1>8. HasRow(q)'
    <2>1. pc[q] # "idle" => call[q].run \in Runs
      BY CallFields DEF IInv, Placed
    <2>2. pc[q] = "idle" => open[q] = None /\ work[q].batches = {}
      BY DEF IInv, Placed, NoWork
    <2> QED
      BY <1>2, <1>4, <2>1, <2>2, RunsStay DEF Arriving, HasRow
  <1> QED
    BY <1>5, <1>7, <1>8 DEF Arriving


\* While a run is being created nobody sees a batch of it.
LEMMA UnseenBeforeCreation ==
  ASSUME IInv, WInv, NEW r \in Requests, pc[r] \notin {"idle", "done"},
         call[r].kind = "create"
  PROVE  /\ call[r].run \in Runs \ Loaded /\ runs[call[r].run] = None
         /\ faults[call[r].run] = {}
         /\ \A b \in batches : ~IsNameOf(b.ref, call[r].run)
  <1>1. call[r].run \in Runs \ Loaded /\ runs[call[r].run] = None
    BY CallFields DEF IInv, Placed, WInv, Arriving, Creating
  <1> QED
    BY <1>1 DEF WInv, Whole

\* A step of r that leaves its call, the references it has and the rows of its
\* run alone leaves it arriving.
LEMMA ArrivingOn ==
  ASSUME IInv, WInv, NEW r \in Requests, UNCHANGED <<runs, call>>,
         PlanRefs(r)' \cup WorkRefs(r)' = PlanRefs(r) \cup WorkRefs(r),
         Planned(r)', work'[r].run = work[r].run,
         pc[r] \in {"open", "insert", "event", "write"},
         pc'[r] \in {"open", "insert", "event", "write"},
         (open'[r] # None \/ work'[r].batches # {}) =>
           (open[r] # None \/ work[r].batches # {} \/ runs[call[r].run] # None
              \/ work[r].run # None)
  PROVE  Arriving(r)'
  <1>1. Arriving(r)
    BY DEF WInv
  <1>2. NamesKept(r)'
    BY <1>1 DEF Arriving, NamesKept, IsNameOf
  <1>3. Creating(r)'
    BY <1>1 DEF Arriving, Creating
  <1>4. HasRow(r)'
    BY <1>1 DEF Arriving, HasRow
  <1> QED
    BY <1>2, <1>3, <1>4 DEF Arriving

\* The beginning of a call.
LEMMA ArrivingBegins ==
  ASSUME IInv, WInv, NEW r \in Requests, (\E c \in Calls : Start(r, c)) \/ ReadConfig(r)
  PROVE  Arriving(r)'
  <1>0. Arriving(r)
    BY DEF WInv
  <1>1. ASSUME NEW c \in Calls, Start(r, c)
        PROVE  Arriving(r)'
    <2>1. /\ pc[r] = "idle" /\ pc'[r] = "begin" /\ call'[r] = c
          /\ \A q \in Requests \ {r} : call'[q] = call[q]
          /\ UNCHANGED <<runs, plan, open, work>>
          /\ c.kind = "create" => runs[c.run] = None /\ \A q \in Requests : call[q] # c
      BY <1>1 DEF Start, IInv, TypeOK, tables
    <2>2. plan[r] = <<>> /\ open[r] = None /\ work[r] = NoWork
      BY <1>0, <2>1 DEF Arriving, Planned, IInv, Placed
    <2>3. PlanRefs(r)' = {} /\ WorkRefs(r)' = {} /\ work[r].run = None /\ work[r].batches = {}
      BY <2>1, <2>2 DEF PlanRefs, WorkRefs, NoWork
    <2>4. c.kind = "create" => c.run \notin Loaded
      BY <2>1 DEF WInv
    <2>5. Planned(r)' /\ NamesKept(r)'
      BY <2>1, <2>2, <2>3 DEF Planned, NamesKept
    <2>6. Creating(r)'
      BY <2>1, <2>4 DEF Creating
    <2>7. HasRow(r)'
      BY <2>1, <2>2, <2>3 DEF HasRow
    <2> QED
      BY <2>5, <2>6, <2>7 DEF Arriving
  <1>2. CASE ReadConfig(r)
    <2>1. /\ pc[r] = "begin" /\ pc'[r] = "lock" /\ call[r].kind = "reset"
          /\ runs[call[r].run] # None
          /\ UNCHANGED <<runs, call, plan, open, work>>
      BY <1>2 DEF ReadConfig, IInv, TypeOK, tables
    <2>2. PlanRefs(r)' = PlanRefs(r) /\ WorkRefs(r)' = WorkRefs(r)
      BY <2>1 DEF PlanRefs, WorkRefs
    <2> QED
      BY <1>0, <2>1, <2>2 DEF Arriving, Planned, NamesKept, IsNameOf, Creating, HasRow
  <1> QED
    BY <1>1, <1>2

\* The plan of a call: a feed's delivery, or what is generated.
LEMMA ArrivingPlans ==
  ASSUME FeedsNameTheirOwn, IInv, WInv, NEW r \in Requests,
         BeginIngest(r) \/ CreateRun(r) \/ ResetRun(r)
  PROVE  Arriving(r)'
  <1>0. /\ Arriving(r) /\ pc[r] \in {"begin", "lock"} /\ call[r] \in Calls
        /\ call[r].run \in Runs /\ resets[r] \in Nat /\ open[r] = None /\ work[r] = NoWork
    BY CallFields DEF WInv, IInv, Placed, TypeOK, BeginIngest, CreateRun, ResetRun
  <1>1. work[r].batches = {} /\ work[r].run = None
    BY <1>0 DEF NoWork
  <1>2. CASE BeginIngest(r)
    <2>1. /\ pc'[r] = "open" /\ call[r].kind = "ingest" /\ plan'[r] = <<call[r].delivery>>
          /\ UNCHANGED <<runs, call, open, work>>
      BY <1>2 DEF BeginIngest, IInv, TypeOK, tables
    <2>2. PlanRefs(r)' = {call[r].delivery.ref} /\ WorkRefs(r)' = {}
      BY <1>1, <2>1 DEF PlanRefs, WorkRefs
    <2>3. NamesKept(r)'
      BY <1>0, <2>1, <2>2 DEF NamesKept, FeedsNameTheirOwn
    <2> QED
      BY <1>0, <1>1, <2>1, <2>3 DEF Arriving, Planned, Creating, HasRow
  <1>3. CASE CreateRun(r)
    <2> DEFINE run == call[r].run
               made == Generation(run, faults[run], run)
    <2>1. /\ pc[r] = "begin" /\ pc'[r] = "open" /\ call[r].kind = "create" /\ plan'[r] = made
          /\ work'[r].run = [status |-> "running", resets |-> 0] /\ work'[r].batches = {}
          /\ UNCHANGED <<runs, call, open>>
      BY <1>1, <1>3 DEF CreateRun, IInv, TypeOK, Work, tables
    <2>2. run \in Runs \ Loaded /\ runs[run] = None /\ faults[run] = {}
      BY <2>1, UnseenBeforeCreation
    <2>3. PlanRefs(r)' = NamesOf(run) /\ WorkRefs(r)' = {}
      BY <2>1, <2>2 DEF PlanRefs, WorkRefs, NamesOf
    <2>4. work'[r].run # None
      <3>1. [status |-> "running", resets |-> 0] \in RunRow
        BY DEF RunRow
      <3> QED
        BY <2>1, <3>1, NoneAssumption
    <2> HIDE DEF made
    <2>5. NamesKept(r)'
      <3> SUFFICES ASSUME NEW ref \in NamesOf(run), NEW other \in Runs \ Loaded,
                          IsNameOf(ref, other)
                   PROVE  other = run
        BY <2>1, <2>3 DEF NamesKept, IsNameOf
      <3>1. IsNameOf(ref, run)
        BY NamesAreNames
      <3> QED
        BY <3>1 DEF IsNameOf
    <2>6. Creating(r)'
      BY <1>0, <2>1, <2>2, <2>3, <2>4 DEF Creating, Arriving
    <2> QED
      BY <1>0, <2>1, <2>4, <2>5, <2>6 DEF Arriving, Planned, HasRow
  <1>4. CASE ResetRun(r)
    <2> DEFINE run == call[r].run
               made == Generation(run, faults[run], resets[r])
    <2>1. /\ pc[r] = "lock" /\ pc'[r] = "open" /\ plan'[r] = made
          /\ work'[r].run = [status |-> "running", resets |-> resets[r]]
          /\ work'[r].batches = {}
          /\ UNCHANGED <<runs, call, open>>
      BY <1>1, <1>4 DEF ResetRun, IInv, TypeOK, Work, tables
    <2>2. work'[r].run # None
      <3>1. [status |-> "running", resets |-> resets[r]] \in RunRow
        BY <1>0 DEF RunRow
      <3> QED
        BY <2>1, <3>1, NoneAssumption
    <2>3. \A ref \in PlanRefs(r)' : ref.suffix \in Nat
      BY <1>0, <2>1, GenerationNames DEF PlanRefs
    <2>4. WorkRefs(r)' = {}
      BY <2>1 DEF WorkRefs
    <2> HIDE DEF made
    <2>5. NamesKept(r)'
      BY <2>3, <2>4, FreshNames DEF NamesKept, IsNameOf
    <2>6. call[r].kind = "reset"
      BY <1>0, <2>1 DEF Arriving, Planned
    <2> QED
      BY <1>0, <2>1, <2>2, <2>5, <2>6 DEF Arriving, Planned, Creating, HasRow
  <1> QED
    BY <1>2, <1>3, <1>4


\* A batch that is found, looked up or opened.
LEMMA ArrivingOpens ==
  ASSUME IInv, WInv, NEW r \in Requests,
         ReplayBatch(r) \/ DecideToIngest(r) \/ InsertBatch(r)
  PROVE  Arriving(r)'
  <1>0. Arriving(r)
    BY DEF WInv
  <1>1. CASE ReplayBatch(r)
    <2>1. /\ pc[r] = "open" /\ pc'[r] = "open" /\ plan[r] # <<>> /\ plan'[r] = Tail(plan[r])
          /\ UNCHANGED <<runs, call, open, work>>
          /\ \E b \in BatchesSeen(r) : b.ref = Head(plan[r]).ref
      BY <1>1 DEF ReplayBatch, IInv, TypeOK, tables
    <2>2. /\ open[r] = None
          /\ PlanRefs(r) = {Head(plan[r]).ref} \cup PlanRefs(r)'
          /\ WorkRefs(r)' = WorkRefs(r)
      <3>1. plan[r] \in Seq(Delivery)
        BY DEF IInv, TypeOK
      <3>2. {plan[r][i].ref : i \in DOMAIN plan[r]} = {Head(plan[r]).ref}
              \cup {Tail(plan[r])[i].ref : i \in DOMAIN Tail(plan[r])}
        BY <2>1, <3>1, TailRefs
      <3> QED
        BY <2>1, <3>2 DEF IInv, Placed, PlanRefs, WorkRefs
    <2>3. call[r].kind = "create" => Head(plan[r]).ref \in WorkRefs(r)
      <3> SUFFICES ASSUME call[r].kind = "create"
                   PROVE  Head(plan[r]).ref \in WorkRefs(r)
        OBVIOUS
      <3>1. Head(plan[r]).ref \in NamesOf(call[r].run)
        BY <1>0, <2>1, <2>2 DEF Arriving, Creating
      <3>2. \A b \in batches : b.ref # Head(plan[r]).ref
        BY <2>1, <3>1, UnseenBeforeCreation, NamesAreNames
      <3> QED
        BY <2>1, <3>2 DEF BatchesSeen, WorkRefs
    <2>4. Planned(r)' /\ NamesKept(r)'
      BY <1>0, <2>1, <2>2 DEF Arriving, Planned, NamesKept, IsNameOf
    <2>5. Creating(r)'
      BY <1>0, <2>1, <2>2, <2>3 DEF Arriving, Creating
    <2>6. HasRow(r)'
      BY <1>0, <2>1 DEF Arriving, HasRow
    <2> QED
      BY <2>4, <2>5, <2>6 DEF Arriving
  <1>2. CASE DecideToIngest(r)
    <2>1. /\ pc[r] = "open" /\ pc'[r] = "insert"
          /\ UNCHANGED <<runs, call, plan, open, work>>
      BY <1>2 DEF DecideToIngest, IInv, TypeOK, tables
    <2>2. PlanRefs(r)' = PlanRefs(r) /\ WorkRefs(r)' = WorkRefs(r)
      BY <2>1 DEF PlanRefs, WorkRefs
    <2>3. Planned(r)'
      BY <1>0, <2>1 DEF Arriving, Planned
    <2> QED
      BY <2>1, <2>2, <2>3, ArrivingOn
  <1>3. CASE InsertBatch(r)
    <2>1. /\ pc[r] = "insert" /\ pc'[r] = "event" /\ open'[r].ref = Head(plan[r]).ref
          /\ UNCHANGED <<runs, call, plan, work>>
          /\ runs[call[r].run] # None \/ work[r].run # None
      BY <1>3 DEF InsertBatch, BatchRefused, IInv, TypeOK, tables
    <2>2. PlanRefs(r)' = PlanRefs(r) /\ WorkRefs(r)' = WorkRefs(r)
      BY <2>1 DEF PlanRefs, WorkRefs
    <2>3. Planned(r)'
      BY <2>1 DEF Planned
    <2> QED
      BY <2>1, <2>2, <2>3, ArrivingOn
  <1> QED
    BY <1>1, <1>2, <1>3

\* Event by event, and the end of a batch.
LEMMA ArrivingFills ==
  ASSUME IInv, WInv, NEW r \in Requests,
         \/ DuplicateEvent(r) \/ RejectEvent(r) \/ RecordEvent(r) \/ DecideToWrite(r)
         \/ WriteTransaction(r) \/ CloseBatch(r)
  PROVE  Arriving(r)'
  <1>0. Arriving(r)
    BY DEF WInv
  <1>1. ASSUME DuplicateEvent(r) \/ RejectEvent(r) \/ RecordEvent(r) \/ DecideToWrite(r)
        PROVE  Arriving(r)'
    <2>1. /\ pc[r] = "event" /\ open[r] # None
          /\ UNCHANGED <<tables, call, plan, work>>
          /\ \E b \in Batch : /\ open' = [open EXCEPT ![r] = b] /\ b.ref = open[r].ref
                              /\ pc'[r] \in {"event", "write"}
      BY <1>1, EventSteps DEF IInv, TypeOK, OneMore
    <2>2. PlanRefs(r)' = PlanRefs(r) /\ WorkRefs(r)' = WorkRefs(r) /\ runs' = runs
      BY <2>1 DEF PlanRefs, WorkRefs, tables
    <2>3. open'[r].ref = open[r].ref /\ pc'[r] \in {"event", "write"}
      BY <2>1 DEF IInv, TypeOK
    <2>4. Planned(r)'
      BY <1>0, <2>1, <2>3 DEF Arriving, Planned
    <2> QED
      BY <2>1, <2>2, <2>3, <2>4, ArrivingOn
  <1>2. CASE WriteTransaction(r)
    <2>1. /\ pc[r] = "write" /\ pc'[r] = "event"
          /\ UNCHANGED <<runs, call, plan, open>>
          /\ work'[r].batches = work[r].batches /\ work'[r].run = work[r].run
      BY <1>2 DEF WriteTransaction, IInv, TypeOK, Work, tables
    <2>2. PlanRefs(r)' = PlanRefs(r) /\ WorkRefs(r)' = WorkRefs(r)
      BY <2>1 DEF PlanRefs, WorkRefs
    <2>3. Planned(r)'
      BY <1>0, <2>1 DEF Arriving, Planned
    <2> QED
      BY <2>1, <2>2, <2>3, ArrivingOn
  <1>3. CASE CloseBatch(r)
    <2>1. /\ pc[r] = "event" /\ pc'[r] = "open" /\ open'[r] = None
          /\ plan'[r] = Tail(plan[r])
          /\ UNCHANGED <<runs, call>>
          /\ work'[r].batches = work[r].batches \cup {Closed(open[r])}
          /\ work'[r].run = work[r].run
      BY <1>3 DEF CloseBatch, IInv, TypeOK, Work, tables
    <2>2. plan[r] # <<>> /\ open[r] # None /\ open[r] \in Batch /\ plan[r] \in Seq(Delivery)
      BY <2>1 DEF IInv, Placed, TypeOK
    <2>3. Closed(open[r]).ref = Head(plan[r]).ref
      BY <1>0, <2>2, ClosedFields DEF Arriving, Planned
    <2>4. WorkRefs(r)' = WorkRefs(r) \cup {Head(plan[r]).ref}
      BY <2>1, <2>3 DEF WorkRefs
    <2>5. PlanRefs(r) = {Head(plan[r]).ref} \cup PlanRefs(r)'
      <3>1. {plan[r][i].ref : i \in DOMAIN plan[r]} = {Head(plan[r]).ref}
              \cup {Tail(plan[r])[i].ref : i \in DOMAIN Tail(plan[r])}
        BY <2>2, TailRefs
      <3> QED
        BY <2>1, <3>1 DEF PlanRefs
    <2>6. Planned(r)'
      BY <2>1 DEF Planned
    <2> QED
      BY <2>1, <2>2, <2>4, <2>5, <2>6, ArrivingOn
  <1> QED
    BY <1>1, <1>2, <1>3

\* The end of a call.
LEMMA ArrivingEnds ==
  ASSUME IInv, WInv, NEW r \in Requests, Acts(r),
         Finish(r) \/ \E code \in Codes \ {"ok"} : pc[r] # "idle" /\ Fail(r, code)
  PROVE  Arriving(r)'
  <1>0. Arriving(r)
    BY DEF WInv
  <1>1. /\ pc'[r] = "done" /\ open'[r] = None /\ work'[r] = NoWork /\ plan'[r] = <<>>
        /\ call'[r] = call[r] /\ pc[r] # "idle"
    BY LastSteps DEF IInv
  <1>2. PlanRefs(r)' = {} /\ WorkRefs(r)' = {}
    BY <1>1 DEF PlanRefs, WorkRefs, NoWork
  <1>3. Planned(r)' /\ NamesKept(r)' /\ HasRow(r)'
    BY <1>1, <1>2 DEF Planned, NamesKept, HasRow, NoWork
  <1>4. Creating(r)'
    <2>1. \A q \in Requests \ {r} : call'[q] = call[q]
      BY Others DEF IInv, Untouched
    <2> QED
      BY <1>0, <1>1, <2>1 DEF Arriving, Creating
  <1> QED
    BY <1>3, <1>4 DEF Arriving

\* What the end of a call brings to the runs.
LEMMA WholeStep ==
  ASSUME IInv, WInv, NEW r \in Requests, Acts(r), NEW run \in Runs \ Loaded
  PROVE  Whole(run)'
  <1>0. Whole(run) /\ Arriving(r)
    BY DEF WInv
  <1>1. CASE UNCHANGED <<runs, faults, batches>>
    BY <1>0, <1>1 DEF Whole, IsNameOf
  <1>2. CASE /\ Finish(r) /\ faults' = faults
             /\ batches' = batches \cup work[r].batches
             /\ \/ work[r].run = None /\ runs' = runs
                \/ /\ work[r].run # None
                   /\ runs' = [runs EXCEPT ![call[r].run] =
                                 [work[r].run EXCEPT !.status = "completed"]]
                   /\ [work[r].run EXCEPT !.status = "completed"] \in RunRow
    <2>1. /\ pc[r] = "open" /\ plan[r] = <<>> /\ call[r] \in Calls /\ call[r].run \in Runs
          /\ \A b \in work[r].batches : b.run = call[r].run
      BY <1>2, FinishCommits, CallFields DEF IInv, Placed, OfItsRun
    <2>2. PlanRefs(r) = {}
      BY <2>1 DEF PlanRefs
    <2>3. \A b \in work[r].batches : IsNameOf(b.ref, run) =>
            call[r].kind = "create" /\ call[r].run = run
      BY <1>0 DEF Arriving, NamesKept, WorkRefs
    <2>4. CASE call[r].kind = "create" /\ call[r].run = run
      <3>1. /\ runs[run] = None /\ work[r].run # None /\ WorkRefs(r) = NamesOf(run)
            /\ \A b \in batches : ~IsNameOf(b.ref, run)
        BY <1>0, <2>1, <2>2, <2>4, UnseenBeforeCreation DEF Arriving, Creating
      <3>2. \A b \in work[r].batches : IsNameOf(b.ref, run)
        BY <3>1, NamesAreNames DEF WorkRefs
      <3>3. {x \in batches' : IsNameOf(x.ref, run)} = work[r].batches
        BY <1>2, <3>1, <3>2
      <3>4. {b.ref : b \in {x \in batches' : IsNameOf(x.ref, run)}} = NamesOf(run)
        BY <3>1, <3>3 DEF WorkRefs
      <3>5. runs'[run] = [work[r].run EXCEPT !.status = "completed"]
        BY <1>2, <2>4, <3>1 DEF IInv, TypeOK
      <3>6. runs'[run] # None /\ runs'[run].status = "completed"
        <4>1. work[r].run \in RunRow
          BY <3>1 DEF IInv, TypeOK, Work
        <4>2. [work[r].run EXCEPT !.status = "completed"].status = "completed"
          BY <4>1 DEF RunRow
        <4> QED
          BY <1>2, <3>1, <3>5, <4>2, NoneAssumption
      <3> QED
        BY <3>4, <3>6 DEF Whole, IsNameOf
    <2>5. CASE ~(call[r].kind = "create" /\ call[r].run = run)
      <3>1. \A b \in work[r].batches : ~IsNameOf(b.ref, run)
        BY <2>3, <2>5
      <3>2. {x \in batches' : IsNameOf(x.ref, run)} = {x \in batches : IsNameOf(x.ref, run)}
        BY <1>2, <3>1
      <3>3. CASE call[r].run # run
        <4>1. runs'[run] = runs[run]
          BY <1>2, <2>1, <3>3 DEF IInv, TypeOK
        <4>2. \A b \in work[r].batches : b.run # run
          BY <2>1, <3>3
        <4> QED
          BY <1>0, <1>2, <3>1, <3>2, <4>1, <4>2 DEF Whole, IsNameOf
      <3>4. CASE call[r].run = run
        <4>1. call[r].kind \in {"ingest", "reset"}
          BY <2>1, <2>5, <3>4, CallFields
        <4>2. CASE work[r].run = None
          <5>1. runs' = runs /\ (work[r].batches # {} => runs[run] # None)
            BY <1>0, <1>2, <3>4, <4>2 DEF Arriving, HasRow
          <5> QED
            BY <1>0, <1>2, <3>1, <3>2, <5>1 DEF Whole, IsNameOf
        <4>3. CASE work[r].run # None
          <5>1. runs[run] # None
            BY <1>0, <2>1, <3>4, <4>1, <4>3 DEF Arriving, HasRow
          <5>2. runs'[run] = [work[r].run EXCEPT !.status = "completed"]
            BY <1>2, <3>4, <4>3 DEF IInv, TypeOK
          <5>3. runs'[run] # None /\ runs'[run].status = "completed"
            <6>1. work[r].run \in RunRow
              BY <4>3 DEF IInv, TypeOK, Work
            <6>2. [work[r].run EXCEPT !.status = "completed"].status = "completed"
              BY <6>1 DEF RunRow
            <6> QED
              BY <1>2, <4>3, <5>2, <6>2, NoneAssumption
          <5> QED
            BY <1>0, <3>2, <5>1, <5>3 DEF Whole, IsNameOf
        <4> QED
          BY <4>2, <4>3
      <3> QED
        BY <3>3, <3>4
    <2> QED
      BY <2>4, <2>5
  <1> QED
    BY <1>1, <1>2, TablesChange DEF IInv

LEMMA WholeAlways == FeedsNameTheirOwn => (Spec => []WInv)
  <1> SUFFICES ASSUME FeedsNameTheirOwn
               PROVE  Spec => []WInv
    OBVIOUS
  <1>1. Init => WInv
    <2> SUFFICES ASSUME Init
                 PROVE  WInv
      OBVIOUS
    <2>1. ASSUME NEW r \in Requests
          PROVE  Arriving(r)
      <3>1. /\ pc[r] = "idle" /\ plan[r] = <<>> /\ open[r] = None
            /\ work[r].batches = {} /\ PlanRefs(r) = {} /\ WorkRefs(r) = {}
        BY DEF Init, NoWork, PlanRefs, WorkRefs
      <3> QED
        BY <3>1 DEF Arriving, Planned, NamesKept, Creating, HasRow
    <2>2. ASSUME NEW run \in Loaded
          PROVE  runs[run] # None
      <3>1. [status |-> "completed", resets |-> 0] \in RunRow
        BY DEF RunRow
      <3>2. runs[run] = [status |-> "completed", resets |-> 0]
        BY LoadedAssumption DEF Init
      <3> QED
        BY <3>1, <3>2, NoneAssumption
    <2>3. ASSUME NEW run \in Runs \ Loaded
          PROVE  Whole(run)
      BY DEF Init, Whole
    <2> QED
      BY <2>1, <2>2, <2>3 DEF WInv
  <1>2. ASSUME IInv, WInv, [Next]_vars
        PROVE  WInv'
    <2>1. ASSUME NEW r \in Requests, Acts(r)
          PROVE  WInv'
      <3>1. Arriving(r)'
        BY <1>2, <2>1, ArrivingBegins, ArrivingPlans, ArrivingOpens, ArrivingFills,
           ArrivingEnds, Zenon DEF Acts
      <3>2. \A run \in Runs \ Loaded : Whole(run)'
        BY <1>2, <2>1, WholeStep
      <3>3. \A run \in Loaded : runs'[run] # None
        BY <1>2, <2>1, RunsStay, LoadedAssumption DEF WInv
      <3>4. \A q \in Requests : Arriving(q)'
        BY <1>2, <2>1, <3>1, ArrivingStands
      <3> QED
        BY <3>2, <3>3, <3>4 DEF WInv
    <2>2. ASSUME NEW run \in Runs, NEW f \in Faults, SetFault(run, f)
          PROVE  WInv'
      <3>1. /\ runs[run] # None /\ UNCHANGED <<runs, batches, local>>
            /\ \A other \in Runs \ {run} : faults'[other] = faults[other]
        BY <1>2, <2>2 DEF SetFault, IInv, TypeOK
      <3>2. \A other \in Runs \ Loaded : Whole(other)'
        BY <1>2, <3>1 DEF WInv, Whole, IsNameOf
      <3>3. \A r \in Requests : Arriving(r)'
        BY <1>2, <3>1 DEF WInv, Arriving, Planned, NamesKept, Creating, HasRow, PlanRefs,
           WorkRefs, IsNameOf, local
      <3> QED
        BY <1>2, <3>1, <3>2, <3>3 DEF WInv
    <2>3. CASE UNCHANGED vars
      <3>1. UNCHANGED <<runs, faults, batches, local>>
        BY <2>3 DEF vars, tables
      <3>2. \A run \in Runs \ Loaded : Whole(run)'
        BY <1>2, <3>1 DEF WInv, Whole, IsNameOf
      <3>3. \A r \in Requests : Arriving(r)'
        <4> SUFFICES ASSUME NEW r \in Requests PROVE Arriving(r)'
          OBVIOUS
        <4>1. UNCHANGED <<runs, pc, call, plan, open, work>>
          BY <3>1 DEF local
        <4>2. Planned(r)'
          BY <1>2, <4>1 DEF WInv, Arriving, Planned
        <4>3. NamesKept(r)'
          BY <1>2, <4>1 DEF WInv, Arriving, NamesKept, PlanRefs, WorkRefs, IsNameOf
        <4>4. Creating(r)'
          BY <1>2, <4>1 DEF WInv, Arriving, Creating, PlanRefs, WorkRefs
        <4>5. HasRow(r)'
          BY <1>2, <4>1 DEF WInv, Arriving, HasRow
        <4> QED
          BY <4>2, <4>3, <4>4, <4>5 DEF Arriving
      <3> QED
        BY <1>2, <3>1, <3>2, <3>3 DEF WInv
    <2> QED
      BY <1>2, <2>1, <2>2, <2>3, NextCases
  <1> QED
    BY <1>1, <1>2, Invariance, PTL DEF Spec

\* A run that is created is there with its row, completed, and every batch
\* generated for it, or not at all: whatever fails, is lost, or waits for the
\* others.  Feeds are only asked not to use the names a creation makes.
THEOREM RunsAlwaysArriveWhole == FeedsNameTheirOwn => (Spec => []RunsArriveWhole)
  <1>1. WInv => RunsArriveWhole
    <2> SUFFICES ASSUME WInv, NEW run \in Runs \ Loaded
                 PROVE  LET own == {b \in batches : /\ b.ref.source = SeedOf[run]
                                                    /\ b.ref.suffix = run}
                            generated == Generation(run, {}, run)
                        IN IF runs[run] = None
                           THEN {b \in batches : b.run = run} = {}
                           ELSE /\ runs[run].status = "completed"
                                /\ {b.ref : b \in own} =
                                     {generated[i].ref : i \in DOMAIN generated}
      BY DEF RunsArriveWhole
    <2> QED
      BY DEF WInv, Whole, IsNameOf, NamesOf
  <1> QED
    BY <1>1, WholeAlways, PTL

-----------------------------------------------------------------------------
(* Runs of one seed never wait in a circle.  All of them take references     *)
(* and transactions in the order of the generated batches, which faults      *)
(* thin out and corrupt but do not reorder (fault_effects.py:39).  The       *)
(* invariant says that whatever a run holds comes before all it has still    *)
(* to take; of a circle, the request that waits for the first thing would    *)
(* be waited for by one that waits for something before it.                  *)

\* The transactions of a batch are its own and come in the order of their places.
EventsPlaced(index, events, batchOf, place) ==
  /\ \A i \in DOMAIN events : events[i].key # None => batchOf[events[i].key] = index
  /\ \A i, j \in DOMAIN events :
       (i < j /\ events[i].key # None /\ events[j].key # None) =>
         place[events[i].key] < place[events[j].key]

\* The batches from a seed and their transactions come in this order, whatever
\* faults are injected.
GeneratesInOrder(batchOf, place) ==
  \A seed \in Seeds, enabled \in SUBSET Faults :
    LET made == Generated[seed][enabled] IN
    /\ \A i, j \in DOMAIN made : i < j => made[i].index < made[j].index
    /\ \A i \in DOMAIN made : EventsPlaced(made[i].index, made[i].events, batchOf, place)

\* All that is generated has one order: that of the loops over the providers
\* and over t (generator.py:139,177).
GeneratedInOneOrder == \E batchOf, place \in [Keys -> Nat] : GeneratesInOrder(batchOf, place)

DeliveriesInOrder(deliveries, batchOf, place) ==
  /\ \A i, j \in DOMAIN deliveries :
       i < j => deliveries[i].ref.index < deliveries[j].ref.index
  /\ \A i \in DOMAIN deliveries :
       EventsPlaced(deliveries[i].ref.index, deliveries[i].events, batchOf, place)

\* A batch or transaction of an index comes before those of later deliveries.
BeforeAll(index, deliveries) ==
  \A i \in DOMAIN deliveries : index < deliveries[i].ref.index

\* A transaction of the batch under way comes before those of its other events.
BeforeTheOthers(key, events, place) ==
  \A i \in DOMAIN events : events[i].key # None => place[key] < place[events[i].key]

\* What a request has still to take is in order, and what it holds is before it.
InOrder(r, batchOf, place) ==
  /\ DeliveriesInOrder(plan[r], batchOf, place)
  /\ pc[r] \in {"event", "write"} =>
       EventsPlaced(Head(plan[r]).ref.index, left[r], batchOf, place)
  /\ \A b \in work[r].batches : BeforeAll(b.ref.index, plan[r])
  /\ \A t \in work[r].transactions :
       \/ BeforeAll(batchOf[t.key], plan[r])
       \/ /\ pc[r] \in {"event", "write"}
          /\ batchOf[t.key] = Head(plan[r]).ref.index
          /\ BeforeTheOthers(t.key, left[r], place)

OInv(batchOf, place) ==
  \A r \in Requests :
    /\ Planned(r)
    /\ (pc[r] # "idle" /\ call[r].kind # "ingest") => InOrder(r, batchOf, place)

LEMMA GenerationInOrder ==
  ASSUME NEW batchOf, NEW place, GeneratesInOrder(batchOf, place),
         NEW run \in Runs, NEW enabled \in SUBSET Faults, NEW suffix
  PROVE  DeliveriesInOrder(Generation(run, enabled, suffix), batchOf, place)
  <1> DEFINE made == Generated[SeedOf[run]][enabled]
             at(i) == [ref |-> [source |-> SeedOf[run], index |-> made[i].index,
                                suffix |-> suffix],
                       events |-> made[i].events]
  <1>1. Generation(run, enabled, suffix) = [i \in DOMAIN made |-> at(i)]
    BY DEF Generation
  <1>2. \A i : at(i).ref.index = made[i].index /\ at(i).events = made[i].events
    OBVIOUS
  <1>3. SeedOf[run] \in Seeds
    BY DEF Seeds
  <1>4. /\ \A i, j \in DOMAIN made : i < j => made[i].index < made[j].index
        /\ \A i \in DOMAIN made :
             EventsPlaced(made[i].index, made[i].events, batchOf, place)
    BY <1>3 DEF GeneratesInOrder
  <1> HIDE DEF at, made
  <1> QED
    BY <1>1, <1>2, <1>4 DEF DeliveriesInOrder

\* What is in order without its first member is in order.
LEMMA TailInOrder ==
  ASSUME NEW batchOf, NEW place, NEW s \in Seq(Delivery), s # <<>>,
         DeliveriesInOrder(s, batchOf, place)
  PROVE  /\ DeliveriesInOrder(Tail(s), batchOf, place)
         /\ EventsPlaced(Head(s).ref.index, Head(s).events, batchOf, place)
         /\ BeforeAll(Head(s).ref.index, Tail(s))
         /\ \A n : BeforeAll(n, s) => BeforeAll(n, Tail(s)) /\ n < Head(s).ref.index
  <1>1. /\ Len(s) \in Nat /\ Len(s) > 0 /\ DOMAIN s = 1..Len(s) /\ Head(s) = s[1]
        /\ DOMAIN Tail(s) = 1..(Len(s) - 1)
        /\ \A i \in 1..(Len(s) - 1) : Tail(s)[i] = s[i + 1]
    OBVIOUS
  <1>2. /\ 1 \in DOMAIN s
        /\ \A i \in DOMAIN Tail(s) : i + 1 \in DOMAIN s /\ Tail(s)[i] = s[i + 1] /\ 1 < i + 1
        /\ \A i, j \in DOMAIN Tail(s) : i < j => i + 1 < j + 1
    BY <1>1
  <1>3. DeliveriesInOrder(Tail(s), batchOf, place)
    BY <1>2 DEF DeliveriesInOrder
  <1>4. BeforeAll(Head(s).ref.index, Tail(s))
    BY <1>1, <1>2 DEF DeliveriesInOrder, BeforeAll
  <1>5. EventsPlaced(Head(s).ref.index, Head(s).events, batchOf, place)
    BY <1>1, <1>2 DEF DeliveriesInOrder
  <1>6. \A n : BeforeAll(n, s) => BeforeAll(n, Tail(s)) /\ n < Head(s).ref.index
    BY <1>1, <1>2 DEF BeforeAll
  <1> QED
    BY <1>3, <1>4, <1>5, <1>6

LEMMA TailPlaced ==
  ASSUME NEW batchOf, NEW place, NEW index, NEW s \in Seq(Event), s # <<>>,
         EventsPlaced(index, s, batchOf, place)
  PROVE  /\ EventsPlaced(index, Tail(s), batchOf, place)
         /\ Head(s).key # None =>
              batchOf[Head(s).key] = index /\ BeforeTheOthers(Head(s).key, Tail(s), place)
         /\ \A key : BeforeTheOthers(key, s, place) => BeforeTheOthers(key, Tail(s), place)
  <1>1. /\ Len(s) \in Nat /\ Len(s) > 0 /\ DOMAIN s = 1..Len(s) /\ Head(s) = s[1]
        /\ DOMAIN Tail(s) = 1..(Len(s) - 1)
        /\ \A i \in 1..(Len(s) - 1) : Tail(s)[i] = s[i + 1]
    OBVIOUS
  <1>2. /\ 1 \in DOMAIN s
        /\ \A i \in DOMAIN Tail(s) : i + 1 \in DOMAIN s /\ Tail(s)[i] = s[i + 1] /\ 1 < i + 1
        /\ \A i, j \in DOMAIN Tail(s) : i < j => i + 1 < j + 1
    BY <1>1
  <1>3. EventsPlaced(index, Tail(s), batchOf, place)
    BY <1>2 DEF EventsPlaced
  <1>4. Head(s).key # None =>
          batchOf[Head(s).key] = index /\ BeforeTheOthers(Head(s).key, Tail(s), place)
    BY <1>1, <1>2 DEF EventsPlaced, BeforeTheOthers
  <1>5. \A key : BeforeTheOthers(key, s, place) => BeforeTheOthers(key, Tail(s), place)
    BY <1>2 DEF BeforeTheOthers
  <1> QED
    BY <1>3, <1>4, <1>5

\* The plan of a run is in order, and nothing is held yet.
LEMMA OrderBegins ==
  ASSUME NEW batchOf, NEW place, GeneratesInOrder(batchOf, place), IInv,
         NEW r \in Requests, Planned(r), BeginIngest(r) \/ CreateRun(r) \/ ResetRun(r)
  PROVE  /\ Planned(r)'
         /\ call'[r].kind # "ingest" => InOrder(r, batchOf, place)'
  <1>1. /\ pc[r] \in {"begin", "lock"} /\ pc'[r] = "open" /\ open'[r] = None
        /\ call[r] \in Calls /\ call[r].run \in Runs /\ call'[r] = call[r]
        /\ open[r] = None /\ work[r] = NoWork
        /\ work'[r].batches = {} /\ work'[r].transactions = {}
        /\ \/ call[r].kind = "ingest"
           \/ \E suffix : plan'[r] = Generation(call[r].run, faults[call[r].run], suffix)
    <2>1. /\ pc[r] \in {"begin", "lock"} /\ call[r] \in Calls /\ call[r].run \in Runs
          /\ open[r] = None /\ work[r] = NoWork
      BY CallFields DEF IInv, Placed, TypeOK, BeginIngest, CreateRun, ResetRun
    <2>2. work[r].batches = {} /\ work[r].transactions = {}
      BY <2>1 DEF NoWork
    <2>3. CASE BeginIngest(r)
      BY <2>1, <2>2, <2>3 DEF BeginIngest, IInv, TypeOK
    <2>4. CASE CreateRun(r)
      BY <2>1, <2>2, <2>4 DEF CreateRun, IInv, TypeOK, Work
    <2>5. CASE ResetRun(r)
      BY <2>1, <2>2, <2>5 DEF ResetRun, IInv, TypeOK, Work
    <2> QED
      BY <2>1, <2>2, <2>3, <2>4, <2>5
  <1>2. Planned(r)'
    BY <1>1 DEF Planned
  <1>3. call[r].kind # "ingest" => DeliveriesInOrder(plan'[r], batchOf, place)
    <2>1. faults[call[r].run] \in SUBSET Faults
      BY <1>1 DEF IInv, TypeOK
    <2> QED
      BY <1>1, <2>1, GenerationInOrder
  <1> QED
    BY <1>1, <1>2, <1>3 DEF InOrder

\* A batch that is found, looked up or opened.
LEMMA OrderOpens ==
  ASSUME NEW batchOf, NEW place, IInv, NEW r \in Requests, Planned(r),
         ReplayBatch(r) \/ DecideToIngest(r) \/ InsertBatch(r)
  PROVE  /\ Planned(r)' /\ call'[r] = call[r] /\ pc[r] # "idle"
         /\ InOrder(r, batchOf, place) => InOrder(r, batchOf, place)'
  <1>0. plan[r] \in Seq(Delivery) /\ pc[r] \in {"open", "insert"} /\ plan[r] # <<>>
    BY DEF IInv, TypeOK, ReplayBatch, DecideToIngest, InsertBatch, Placed
  <1>1. CASE ReplayBatch(r)
    <2>1. /\ pc[r] = "open" /\ pc'[r] = "open" /\ plan'[r] = Tail(plan[r])
          /\ call'[r] = call[r] /\ open'[r] = open[r] /\ work'[r] = work[r] /\ open[r] = None
      BY <1>1 DEF ReplayBatch, IInv, TypeOK, Placed
    <2>2. Planned(r)'
      BY <2>1 DEF Planned
    <2>3. ASSUME InOrder(r, batchOf, place)
          PROVE  InOrder(r, batchOf, place)'
      BY <1>0, <2>1, <2>3, TailInOrder DEF InOrder
    <2> QED
      BY <2>1, <2>2, <2>3
  <1>2. CASE DecideToIngest(r)
    <2>1. /\ pc[r] = "open" /\ pc'[r] = "insert" /\ plan'[r] = plan[r]
          /\ call'[r] = call[r] /\ open'[r] = open[r] /\ work'[r] = work[r] /\ open[r] = None
      BY <1>2 DEF DecideToIngest, IInv, TypeOK, Placed
    <2> QED
      BY <2>1 DEF Planned, InOrder
  <1>3. CASE InsertBatch(r)
    <2>1. /\ pc[r] = "insert" /\ pc'[r] = "event" /\ plan'[r] = plan[r]
          /\ call'[r] = call[r] /\ work'[r] = work[r]
          /\ open'[r].ref = Head(plan[r]).ref /\ left'[r] = Head(plan[r]).events
      BY <1>3 DEF InsertBatch, IInv, TypeOK
    <2>2. Planned(r)'
      BY <2>1 DEF Planned
    <2>3. ASSUME InOrder(r, batchOf, place)
          PROVE  InOrder(r, batchOf, place)'
      <3>1. DeliveriesInOrder(plan[r], batchOf, place)
        BY <2>3 DEF InOrder
      <3>2. EventsPlaced(Head(plan[r]).ref.index, left'[r], batchOf, place)
        BY <1>0, <2>1, <3>1, TailInOrder
      <3> QED
        BY <2>1, <2>3, <3>2 DEF InOrder
    <2> QED
      BY <2>1, <2>2, <2>3
  <1> QED
    BY <1>1, <1>2, <1>3

\* Event by event, and the end of a batch.
LEMMA OrderFills ==
  ASSUME NEW batchOf, NEW place, IInv, NEW r \in Requests, Planned(r),
         \/ DuplicateEvent(r) \/ RejectEvent(r) \/ RecordEvent(r) \/ DecideToWrite(r)
         \/ WriteTransaction(r) \/ CloseBatch(r)
  PROVE  /\ Planned(r)' /\ call'[r] = call[r] /\ pc[r] # "idle"
         /\ InOrder(r, batchOf, place) => InOrder(r, batchOf, place)'
  <1>0. /\ pc[r] \in {"event", "write"} /\ open[r] # None /\ open[r] \in Batch
        /\ plan[r] # <<>> /\ plan[r] \in Seq(Delivery) /\ left[r] \in Seq(Event)
        /\ open[r].ref = Head(plan[r]).ref
    BY DEF IInv, TypeOK, Placed, Planned, DuplicateEvent, RejectEvent, RecordEvent, NewEvent,
       DecideToWrite, WriteTransaction, CloseBatch
  <1>1. ASSUME DuplicateEvent(r) \/ RejectEvent(r) \/ RecordEvent(r) \/ DecideToWrite(r)
        PROVE  /\ Planned(r)' /\ call'[r] = call[r]
               /\ InOrder(r, batchOf, place) => InOrder(r, batchOf, place)'
    <2>1. /\ pc[r] = "event" /\ left[r] # <<>>
          /\ UNCHANGED <<tables, call, plan, work>>
          /\ \E b \in Batch : /\ open' = [open EXCEPT ![r] = b] /\ b.ref = open[r].ref
                              /\ \/ pc' = pc /\ left' = [left EXCEPT ![r] = Tail(left[r])]
                                 \/ pc' = [pc EXCEPT ![r] = "write"] /\ left' = left
      BY <1>1, EventSteps DEF IInv, OneMore
    <2>2. /\ open'[r].ref = open[r].ref /\ pc'[r] \in {"event", "write"}
          /\ left'[r] \in {left[r], Tail(left[r])}
          /\ call'[r] = call[r] /\ plan'[r] = plan[r] /\ work'[r] = work[r]
      BY <2>1 DEF IInv, TypeOK
    <2>3. Planned(r)'
      BY <1>0, <2>2 DEF Planned
    <2>4. ASSUME InOrder(r, batchOf, place)
          PROVE  InOrder(r, batchOf, place)'
      <3>1. EventsPlaced(Head(plan[r]).ref.index, left[r], batchOf, place)
        BY <1>0, <2>4 DEF InOrder
      <3>2. /\ EventsPlaced(Head(plan[r]).ref.index, left'[r], batchOf, place)
            /\ \A key : BeforeTheOthers(key, left[r], place) =>
                          BeforeTheOthers(key, left'[r], place)
        <4>1. /\ EventsPlaced(Head(plan[r]).ref.index, Tail(left[r]), batchOf, place)
              /\ \A key : BeforeTheOthers(key, left[r], place) =>
                            BeforeTheOthers(key, Tail(left[r]), place)
          BY <1>0, <2>1, <3>1, TailPlaced, Zenon
        <4> QED
          BY <2>2, <3>1, <4>1
      <3> QED
        BY <1>0, <2>2, <2>4, <3>2 DEF InOrder
    <2> QED
      BY <2>2, <2>3, <2>4
  <1>2. CASE WriteTransaction(r)
    <2> DEFINE row == [key |-> Head(left[r]).key, run |-> call[r].run]
    <2>1. /\ pc[r] = "write" /\ pc'[r] = "event" /\ left[r] # <<>> /\ row.key \in Keys
          /\ plan'[r] = plan[r] /\ call'[r] = call[r] /\ open'[r] = open[r]
          /\ left'[r] = Tail(left[r])
          /\ work'[r].batches = work[r].batches
          /\ work'[r].transactions = work[r].transactions \cup {row}
      BY <1>2 DEF WriteTransaction, IInv, TypeOK, Placed, Work
    <2>2. Planned(r)'
      BY <1>0, <2>1 DEF Planned
    <2>3. ASSUME InOrder(r, batchOf, place)
          PROVE  InOrder(r, batchOf, place)'
      <3>1. EventsPlaced(Head(plan[r]).ref.index, left[r], batchOf, place)
        BY <1>0, <2>3 DEF InOrder
      <3>2. /\ EventsPlaced(Head(plan[r]).ref.index, left'[r], batchOf, place)
            /\ batchOf[row.key] = Head(plan[r]).ref.index
            /\ BeforeTheOthers(row.key, left'[r], place)
            /\ \A key : BeforeTheOthers(key, left[r], place) =>
                          BeforeTheOthers(key, left'[r], place)
        <4>1. row.key # None /\ row.key = Head(left[r]).key
          BY <2>1, FreshNames
        <4>2. /\ EventsPlaced(Head(plan[r]).ref.index, Tail(left[r]), batchOf, place)
              /\ batchOf[row.key] = Head(plan[r]).ref.index
              /\ BeforeTheOthers(row.key, Tail(left[r]), place)
              /\ \A key : BeforeTheOthers(key, left[r], place) =>
                            BeforeTheOthers(key, Tail(left[r]), place)
          <5> HIDE DEF row
          <5>0. left[r] \in Seq(Event) /\ left[r] # <<>>
            BY <1>0, <2>1
          <5>1. Head(left[r]).key # None
            BY <4>1
          <5>2. /\ EventsPlaced(Head(plan[r]).ref.index, Tail(left[r]), batchOf, place)
                /\ Head(left[r]).key # None =>
                     /\ batchOf[Head(left[r]).key] = Head(plan[r]).ref.index
                     /\ BeforeTheOthers(Head(left[r]).key, Tail(left[r]), place)
                /\ \A key : BeforeTheOthers(key, left[r], place) =>
                              BeforeTheOthers(key, Tail(left[r]), place)
            BY <3>1, <5>0, TailPlaced, Zenon
          <5> QED
            BY <4>1, <5>1, <5>2
        <4> QED
          BY <2>1, <4>2
      <3> HIDE DEF row
      <3> QED
        BY <2>1, <2>3, <3>2 DEF InOrder
    <2> QED
      BY <2>1, <2>2, <2>3
  <1>3. CASE CloseBatch(r)
    <2>1. /\ pc[r] = "event" /\ pc'[r] = "open" /\ open'[r] = None
          /\ plan'[r] = Tail(plan[r]) /\ call'[r] = call[r]
          /\ work'[r].batches = work[r].batches \cup {Closed(open[r])}
          /\ work'[r].transactions = work[r].transactions
      BY <1>3 DEF CloseBatch, IInv, TypeOK, Work
    <2>2. Planned(r)'
      BY <2>1 DEF Planned
    <2>3. Closed(open[r]).ref = Head(plan[r]).ref
      BY <1>0, ClosedFields
    <2>4. ASSUME InOrder(r, batchOf, place)
          PROVE  InOrder(r, batchOf, place)'
      <3>1. DeliveriesInOrder(plan[r], batchOf, place)
        BY <2>4 DEF InOrder
      <3>2. /\ DeliveriesInOrder(plan'[r], batchOf, place)
            /\ BeforeAll(Head(plan[r]).ref.index, plan'[r])
            /\ \A n : BeforeAll(n, plan[r]) => BeforeAll(n, plan'[r])
        <4>1. /\ DeliveriesInOrder(Tail(plan[r]), batchOf, place)
              /\ BeforeAll(Head(plan[r]).ref.index, Tail(plan[r]))
              /\ \A n : BeforeAll(n, plan[r]) => BeforeAll(n, Tail(plan[r]))
          BY <1>0, <3>1, TailInOrder, Zenon
        <4> QED
          BY <2>1, <4>1
      <3>3. \A b \in work'[r].batches : BeforeAll(b.ref.index, plan'[r])
        BY <2>1, <2>3, <2>4, <3>2 DEF InOrder
      <3>4. \A t \in work'[r].transactions : BeforeAll(batchOf[t.key], plan'[r])
        BY <2>1, <2>4, <3>2 DEF InOrder
      <3> QED
        BY <2>1, <3>2, <3>3, <3>4 DEF InOrder
    <2> QED
      BY <2>1, <2>2, <2>4
  <1> QED
    BY <1>0, <1>1, <1>2, <1>3

LEMMA OrderAlways ==
  ASSUME NEW CONSTANT batchOf, NEW CONSTANT place, GeneratesInOrder(batchOf, place)
  PROVE  Spec => []OInv(batchOf, place)
  <1> DEFINE Kept(r) == /\ Planned(r)
                        /\ (pc[r] # "idle" /\ call[r].kind # "ingest") =>
                             InOrder(r, batchOf, place)
  <1>1. Init => OInv(batchOf, place)
    BY DEF Init, OInv, Planned
  <1>2. ASSUME IInv, OInv(batchOf, place), [Next]_vars
        PROVE  OInv(batchOf, place)'
    <2>1. ASSUME NEW r \in Requests, Acts(r)
          PROVE  OInv(batchOf, place)'
      <3>0. Planned(r) /\ ((pc[r] # "idle" /\ call[r].kind # "ingest") =>
                             InOrder(r, batchOf, place))
        BY <1>2 DEF OInv
      <3>1. ASSUME (\E c \in Calls : Start(r, c)) \/ ReadConfig(r)
            PROVE  Kept(r)'
        <4>1. /\ pc[r] \in {"idle", "begin"} /\ pc'[r] \in {"begin", "lock"}
              /\ pc'[r] = "lock" => call'[r].kind = "reset"
              /\ UNCHANGED <<plan, open, work>>
          BY <1>2, <3>1 DEF Start, ReadConfig, IInv, TypeOK
        <4>2. plan[r] = <<>> /\ open[r] = None /\ work[r] = NoWork
          BY <1>2, <3>0, <4>1 DEF Planned, IInv, Placed
        <4>3. Planned(r)'
          BY <4>1, <4>2 DEF Planned
        <4>4. InOrder(r, batchOf, place)'
          BY <4>1, <4>2 DEF InOrder, NoWork, DeliveriesInOrder
        <4> QED
          BY <4>3, <4>4
      <3>2. ASSUME Finish(r) \/ \E code \in Codes \ {"ok"} : pc[r] # "idle" /\ Fail(r, code)
            PROVE  Kept(r)'
        <4>1. pc'[r] = "done" /\ open'[r] = None /\ work'[r] = NoWork /\ plan'[r] = <<>>
          BY <1>2, <3>2, LastSteps DEF IInv
        <4>2. Planned(r)'
          BY <4>1 DEF Planned
        <4>3. InOrder(r, batchOf, place)'
          BY <4>1 DEF InOrder, NoWork, DeliveriesInOrder
        <4> QED
          BY <4>2, <4>3
      <3>3. Kept(r)'
        BY <1>2, <2>1, <3>0, <3>1, <3>2, OrderBegins, OrderOpens, OrderFills, Zenon DEF Acts
      <3>4. ASSUME NEW q \in Requests \ {r}
            PROVE  Kept(q)'
        <4>1. /\ pc'[q] = pc[q] /\ call'[q] = call[q] /\ plan'[q] = plan[q]
              /\ left'[q] = left[q] /\ open'[q] = open[q] /\ work'[q] = work[q]
          BY <1>2, <2>1, Others DEF IInv, Untouched
        <4>2. Kept(q)
          BY <1>2 DEF OInv
        <4> QED
          BY <4>1, <4>2 DEF Planned, InOrder
      <3> QED
        BY <3>3, <3>4 DEF OInv
    <2>2. ASSUME UNCHANGED local
          PROVE  OInv(batchOf, place)'
      <3> SUFFICES ASSUME NEW r \in Requests
                   PROVE  Kept(r)'
        BY DEF OInv
      <3>1. UNCHANGED <<pc, call, plan, left, open, work>> /\ Kept(r)
        BY <1>2, <2>2 DEF local, OInv
      <3> QED
        BY <3>1 DEF Planned, InOrder
    <2>3. ASSUME NEW run \in Runs, NEW f \in Faults, SetFault(run, f)
          PROVE  UNCHANGED local
      BY <2>3 DEF SetFault
    <2> QED
      BY <1>2, <2>1, <2>2, <2>3, NextCases DEF vars
  <1> QED
    BY <1>1, <1>2, Invariance, PTL DEF Spec

\* Where a request waits: at the reference of a batch, before its transactions,
\* or at a transaction.
WaitsAt(r, place) == IF pc[r] = "insert" THEN 0 ELSE 1 + place[Head(left[r]).key]

\* Whoever holds what another one waits for waits for something that comes later.
LEMMA HolderWaitsLater ==
  ASSUME NEW batchOf \in [Keys -> Nat], NEW place \in [Keys -> Nat], IInv,
         NEW q \in Requests, pc[q] \in {"insert", "write"}, InOrder(q, batchOf, place),
         NEW p \in Requests, pc[p] \in {"insert", "write"}, InOrder(p, batchOf, place),
         Planned(p), WaitsFor(q, p)
  PROVE  /\ Head(plan[q]).ref.index \in Nat /\ Head(plan[p]).ref.index \in Nat
         /\ WaitsAt(q, place) \in Nat /\ WaitsAt(p, place) \in Nat
         /\ \/ Head(plan[q]).ref.index < Head(plan[p]).ref.index
            \/ /\ Head(plan[q]).ref.index = Head(plan[p]).ref.index
               /\ WaitsAt(q, place) < WaitsAt(p, place)
  <1>1. ASSUME NEW r \in {p, q}
        PROVE  /\ plan[r] \in Seq(Delivery) /\ plan[r] # <<>> /\ 1 \in DOMAIN plan[r]
               /\ Head(plan[r]) = plan[r][1] /\ Head(plan[r]).ref.index \in Nat
               /\ WaitsAt(r, place) \in Nat
               /\ pc[r] = "write" => /\ left[r] # <<>> /\ Head(left[r]).key \in Keys
                                     /\ 1 \in DOMAIN left[r] /\ Head(left[r]) = left[r][1]
                                     /\ WaitsAt(r, place) = 1 + place[Head(left[r]).key]
    <2>1. /\ plan[r] \in Seq(Delivery) /\ plan[r] # <<>> /\ left[r] \in Seq(Event)
          /\ pc[r] = "write" => left[r] # <<>> /\ Head(left[r]).key \in Keys
      BY DEF IInv, TypeOK, Placed
    <2>2. 1 \in DOMAIN plan[r] /\ Head(plan[r]) = plan[r][1] /\ Head(plan[r]) \in Delivery
      BY <2>1
    <2>3. Head(plan[r]).ref.index \in Nat
      BY <2>2 DEF Delivery, Ref
    <2>4. WaitsAt(r, place) \in Nat
      BY <2>1 DEF WaitsAt
    <2> QED
      BY <2>1, <2>2, <2>3, <2>4 DEF WaitsAt
  <1>2. \A b \in work[p].batches : b.ref.index < Head(plan[p]).ref.index
    BY <1>1 DEF InOrder, BeforeAll
  <1>3. CASE pc[q] = "insert"
    <2>1. Head(plan[q]).ref \in RefsHeld(p) /\ WaitsAt(q, place) = 0
      BY <1>3 DEF WaitsFor, WaitsAt
    <2>2. CASE \E b \in work[p].batches : b.ref = Head(plan[q]).ref
      BY <1>1, <1>2, <2>2
    <2>3. CASE open[p] # None /\ open[p].ref = Head(plan[q]).ref
      <3>1. pc[p] = "write"
        BY <2>3 DEF IInv, Placed
      <3>2. Head(plan[q]).ref = Head(plan[p]).ref
        BY <2>3 DEF Planned
      <3>3. place[Head(left[p]).key] \in Nat /\ WaitsAt(p, place) > 0
        BY <1>1, <3>1
      <3> QED
        BY <1>1, <2>1, <3>2, <3>3
    <2> QED
      BY <2>1, <2>2, <2>3 DEF RefsHeld
  <1>4. CASE pc[q] = "write"
    <2>1. PICK t \in work[p].transactions : t.key = Head(left[q]).key
      BY <1>4 DEF WaitsFor, KeysHeld
    <2>2. batchOf[t.key] = Head(plan[q]).ref.index
      BY <1>1, <1>4, <2>1, FreshNames DEF InOrder, EventsPlaced
    <2>3. CASE BeforeAll(batchOf[t.key], plan[p])
      BY <1>1, <2>2, <2>3 DEF BeforeAll
    <2>4. CASE /\ pc[p] \in {"event", "write"}
               /\ batchOf[t.key] = Head(plan[p]).ref.index
               /\ BeforeTheOthers(t.key, left[p], place)
      <3>1. pc[p] = "write"
        BY <2>4
      <3>2. place[t.key] < place[Head(left[p]).key]
        BY <1>1, <2>4, <3>1, FreshNames DEF BeforeTheOthers
      <3>3. place[t.key] \in Nat /\ place[Head(left[p]).key] \in Nat
        BY <1>1, <1>4, <2>1, <3>1
      <3> QED
        BY <1>1, <1>4, <2>1, <2>2, <2>4, <3>1, <3>2, <3>3
    <2> QED
      BY <2>3, <2>4 DEF InOrder
  <1> QED
    BY <1>1, <1>3, <1>4

\* Requests that wait in a circle cannot all create or reset runs: however many
\* there are, of whatever seeds and with whatever faults, as long as all that is
\* generated comes in one order.
THEOREM RunsDoNotDeadlock == GeneratedInOneOrder => (Spec => []GeneratedRunsDoNotDeadlock)
  <1> SUFFICES ASSUME NEW CONSTANT batchOf \in [Keys -> Nat],
                      NEW CONSTANT place \in [Keys -> Nat], GeneratesInOrder(batchOf, place)
               PROVE  Spec => []GeneratedRunsDoNotDeadlock
    BY DEF GeneratedInOneOrder
  <1>1. IInv /\ OInv(batchOf, place) => GeneratedRunsDoNotDeadlock
    <2> SUFFICES ASSUME IInv, OInv(batchOf, place), NEW S \in SUBSET Requests,
                        S # {}, WaitInACircle(S), \A r \in S : call[r].kind # "ingest"
                 PROVE  FALSE
      BY DEF GeneratedRunsDoNotDeadlock
    <2> DEFINE index(r) == Head(plan[r]).ref.index
    <2>1. ASSUME NEW r \in S
          PROVE  pc[r] \in {"insert", "write"} /\ Planned(r) /\ InOrder(r, batchOf, place)
      <3>1. pc[r] \in {"lock", "insert", "write"}
        BY DEF WaitInACircle, WaitsFor
      <3>2. pc[r] # "lock"
        <4> SUFFICES ASSUME pc[r] = "lock"
                     PROVE  FALSE
          OBVIOUS
        <4>1. work[r] = NoWork /\ open[r] = None
          BY DEF IInv, Placed
        <4>2. work[r].run = None /\ RefsHeld(r) = {} /\ KeysHeld(r) = {}
          BY <4>1 DEF NoWork, RefsHeld, KeysHeld
        <4>3. \E q \in S : WaitsFor(q, r)
          BY DEF WaitInACircle
        <4> QED
          BY <4>2, <4>3 DEF WaitsFor
      <3> QED
        BY <3>1, <3>2 DEF OInv
    <2>2. ASSUME NEW p \in S
          PROVE  \E q \in S : /\ index(q) \in Nat /\ index(p) \in Nat
                              /\ WaitsAt(q, place) \in Nat /\ WaitsAt(p, place) \in Nat
                              /\ \/ index(q) < index(p)
                                 \/ /\ index(q) = index(p)
                                    /\ WaitsAt(q, place) < WaitsAt(p, place)
      <3>1. PICK q \in S : WaitsFor(q, p)
        BY DEF WaitInACircle
      <3> QED
        BY <2>1, <3>1, HolderWaitsLater
    <2> HIDE DEF index
    <2>3. PICK p \in S : \A q \in S : index(p) <= index(q)
      <3>1. {index(r) : r \in S} \subseteq Nat /\ {index(r) : r \in S} # {}
        BY <2>2
      <3>2. PICK n \in {index(r) : r \in S} : \A m \in {index(r) : r \in S} : n <= m
        BY <3>1, LeastNatural
      <3> QED
        BY <3>2
    <2> DEFINE First == {r \in S : index(r) = index(p)}
    <2>4. PICK s \in First : \A q \in First : WaitsAt(s, place) <= WaitsAt(q, place)
      <3>1. /\ {WaitsAt(r, place) : r \in First} \subseteq Nat
            /\ {WaitsAt(r, place) : r \in First} # {}
        BY <2>2
      <3>2. PICK n \in {WaitsAt(r, place) : r \in First} :
              \A m \in {WaitsAt(r, place) : r \in First} : n <= m
        BY ONLY <3>1, LeastNatural
      <3> QED
        BY <3>2
    <2>5. PICK q \in S : /\ index(q) \in Nat /\ index(s) \in Nat
                         /\ WaitsAt(q, place) \in Nat /\ WaitsAt(s, place) \in Nat
                         /\ \/ index(q) < index(s)
                            \/ /\ index(q) = index(s)
                               /\ WaitsAt(q, place) < WaitsAt(s, place)
      BY <2>2, <2>4
    <2> QED
      BY <2>3, <2>4, <2>5
  <1> QED
    BY <1>1, Invariance, OrderAlways, PTL
=============================================================================
