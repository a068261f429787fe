---------------------------- MODULE FeedIngestion ----------------------------
(***************************************************************************)
(* Simulation runs and ingestion (services/simulation/run_service.py,      *)
(* services/ingestion/pipeline.py, services/ledger/writer.py).  Every call *)
(* is one READ COMMITTED transaction that ingests one batch or, for a run  *)
(* that is created or reset, all batches generated for it:                 *)
(*                                                                         *)
(*   create, or read and lock the run                                      *)
(*      --> open --> insert --> event <--> write, back to open, --> finish *)
(*        batch by batch            event by event                         *)
(*                                                                         *)
(* The generator and the fault effects are pure and seeded; what they      *)
(* produce is a constant.                                                  *)
(***************************************************************************)
EXTENDS Integers, Sequences

CONSTANTS
  Requests,    \* request handlers; each serves one call
  Runs,        \* simulation runs; the ids of new ones are fresh UUIDs
  Loaded,      \* runs loaded from a dataset, with rows under names of their own
  SeedOf,      \* the seed each run is created with
  Faults,      \* faults an administrator may inject into a run
  Generated,   \* per seed and set of enabled faults, the generated batches
  Feeds,       \* source references of batches that do not come from a seed
  EventRefs,   \* source references of events
  Keys,        \* provider and reference of transactions
  Calls,       \* the calls administrators make
  None         \* no row, no transaction, no answer yet

Seeds == {SeedOf[run] : run \in Runs}

\* form is what the normalizer makes of the payload: a valid event, one it
\* rejects, or one on which it raises an exception the event loop does not
\* catch (the ValueError of an enum or a UUID).  An event without a key is a
\* balance snapshot or a heartbeat.
Forms == {"valid", "rejected", "raises"}
Event == [ref : EventRefs, key : Keys \cup {None}, form : Forms]

\* source_batch_ref, with its provider: of a feed, or generated from a seed for
\* a run under a suffix, the run's id at creation and R1, R2, ... for resets.
Ref == [source : Feeds \cup Seeds, index : Nat, suffix : Runs \cup Nat \cup {None}]
Delivery == [ref : Ref, events : Seq(Event) \ {<<>>}]

CallType ==
  [kind : {"ingest"}, run : Runs, delivery : Delivery]
    \cup [kind : {"create", "reset"}, run : Runs, delivery : {None}]

ASSUME CallsAssumption == Calls \subseteq CallType
ASSUME LoadedAssumption == Loaded \subseteq Runs
ASSUME GenerationAssumption ==
  Generated \in [Seeds -> [SUBSET Faults ->
                   Seq([index : Nat, events : Seq(Event) \ {<<>>}]) \ {<<>>}]]
ASSUME FreshNames ==
  /\ Feeds \cap Seeds = {}
  /\ Runs \cap Nat = {} /\ None \notin Runs \cup Nat \cup Keys

Statuses == {"normalized", "rejected"}
RunRow == [status : {"running", "completed"}, resets : Nat]
EventRow == [ref : EventRefs, key : Keys \cup {None}, status : Statuses]
\* A row of ingestion_batches with its events and its quality assessment.
Batch == [ref : Ref, run : Runs, by : Requests, expected : Nat, received : Nat,
          rejected : Nat, events : SUBSET EventRow, status : Statuses \cup {"pending"},
          health : {"unknown", "fresh", "stale", "missing"}]
Row == [key : Keys, run : Runs]
Work == [run : RunRow \cup {None}, batches : SUBSET Batch, transactions : SUBSET Row]
Answer == [ref : Ref, received : Nat, rejected : Nat, status : Statuses]
Codes == {"ok", "not_found", "internal_error", "lost"}
Reply == [code : Codes, answer : Answer \cup {None}]

VARIABLES
  runs,          \* table simulation_runs
  faults,        \* table fault_injections: the enabled faults of each run
  batches,       \* tables ingestion_batches, ingestion_events, data_quality_assessments
  transactions,  \* table transactions
  pc, call,      \* per request: next step, call
  resets,        \* the reset counter computed from the row that was read
  plan,          \* deliveries still to ingest, the current one first
  left,          \* events of the current delivery still to process
  open,          \* the batch under way
  work,          \* uncommitted rows of the transaction
  answer,        \* the response to the batch ingested last
  reply          \* the answer

tables == <<runs, faults, batches, transactions>>
local == <<pc, call, resets, plan, left, open, work, answer, reply>>
vars == <<tables, local>>

NoWork == [run |-> None, batches |-> {}, transactions |-> {}]

Steps == {"begin", "lock", "open", "insert", "event", "write"}

ASSUME NoneAssumption ==
  /\ None \notin Calls /\ None \notin RunRow /\ None \notin Batch
  /\ None \notin Answer /\ None \notin Reply

TypeOK ==
  /\ runs \in [Runs -> RunRow \cup {None}]
  /\ faults \in [Runs -> SUBSET Faults]
  /\ batches \subseteq Batch
  /\ transactions \subseteq Row
  /\ pc \in [Requests -> Steps \cup {"idle", "done"}]
  /\ call \in [Requests -> Calls \cup {None}]
  /\ resets \in [Requests -> Nat]
  /\ plan \in [Requests -> Seq(Delivery)]
  /\ left \in [Requests -> Seq(Event)]
  /\ open \in [Requests -> Batch \cup {None}]
  /\ work \in [Requests -> Work]
  /\ answer \in [Requests -> Answer \cup {None}]
  /\ reply \in [Requests -> Reply \cup {None}]

Init ==
  /\ runs = [run \in Runs |->
               IF run \in Loaded THEN [status |-> "completed", resets |-> 0] ELSE None]
  /\ faults = [run \in Runs |-> {}]
  /\ batches = {}
  /\ transactions = {}
  /\ pc = [r \in Requests |-> "idle"]
  /\ call = [r \in Requests |-> None]
  /\ resets = [r \in Requests |-> 0]
  /\ plan = [r \in Requests |-> <<>>]
  /\ left = [r \in Requests |-> <<>>]
  /\ open = [r \in Requests |-> None]
  /\ work = [r \in Requests |-> NoWork]
  /\ answer = [r \in Requests |-> None]
  /\ reply = [r \in Requests |-> None]

InFlight(r) == pc[r] \in Steps

-----------------------------------------------------------------------------
(* The end of a transaction. *)

\* The request is answered and what it held in memory is gone.
Answered(r, code, response) ==
  /\ pc' = [pc EXCEPT ![r] = "done"]
  /\ reply' = [reply EXCEPT ![r] = [code |-> code, answer |-> response]]
  /\ resets' = [resets EXCEPT ![r] = 0]
  /\ plan' = [plan EXCEPT ![r] = <<>>]
  /\ left' = [left EXCEPT ![r] = <<>>]
  /\ open' = [open EXCEPT ![r] = None]
  /\ work' = [work EXCEPT ![r] = NoWork]
  /\ answer' = [answer EXCEPT ![r] = None]
  /\ UNCHANGED call

\* An exception: the transaction is rolled back, the status "failed" that
\* create_run writes for it included.
Fail(r, code) ==
  /\ Answered(r, code, None)
  /\ UNCHANGED tables

\* The worker or its connection dies.
Abort(r) ==
  /\ InFlight(r)
  /\ Fail(r, "lost")

-----------------------------------------------------------------------------
(* What a transaction sees and what it waits for. *)

\* Mutant: a dirty read.
BatchesOfAnyone(r) == batches \cup UNION {work[q].batches : q \in Requests}

\* Committed rows and those of the transaction itself.
BatchesSeen(r) == batches \cup work[r].batches

KeysSeen(r) == {t.key : t \in transactions \cup work[r].transactions}

\* What an uncommitted transaction holds: entries of uq_batch_provider_ref and
\* of uq_txn_provider_ref.
RefsHeld(r) ==
  {b.ref : b \in work[r].batches} \cup (IF open[r] = None THEN {} ELSE {open[r].ref})
KeysHeld(r) == {t.key : t \in work[r].transactions}

\* Mutant: transactions have no unique constraint to wait at.
WaitsForRunsAndBatches(r, q) ==
  \/ pc[r] = "lock" /\ work[q].run # None /\ call[q].run = call[r].run
  \/ pc[r] = "insert" /\ Head(plan[r]).ref \in RefsHeld(q)

\* r waits for the end of q: for the row of a run both reset, or to insert what
\* q has inserted.
WaitsFor(r, q) ==
  \/ pc[r] = "lock" /\ work[q].run # None /\ call[q].run = call[r].run
  \/ pc[r] = "insert" /\ Head(plan[r]).ref \in RefsHeld(q)
  \/ pc[r] = "write" /\ Head(left[r]).key \in KeysHeld(q)

MayProceed(r) == \A q \in Requests \ {r} : ~WaitsFor(r, q)

\* Each of S waits for one of S, and one of S for each.
WaitInACircle(S) ==
  \A p \in S : (\E q \in S \ {p} : WaitsFor(p, q)) /\ (\E q \in S \ {p} : WaitsFor(q, p))

\* PostgreSQL ends a deadlock by refusing one of its statements.
DeadlockVictim(r) ==
  /\ \E S \in SUBSET Requests : r \in S /\ WaitInACircle(S)
  /\ Fail(r, "internal_error")

-----------------------------------------------------------------------------
(* Calls on runs. *)

\* Mutant: a creation ingests the batches in the opposite order of a reset.
GenerationByCaller(run, enabled, suffix) ==
  LET made == Generated[SeedOf[run]][enabled]
      at(i) == made[IF suffix = run THEN Len(made) + 1 - i ELSE i]
  IN [i \in DOMAIN made |->
        [ref |-> [source |-> SeedOf[run], index |-> at(i).index, suffix |-> suffix],
         events |-> at(i).events]]

\* generate_dataset, apply_faults_to_batches and the suffix of the references.
Generation(run, enabled, suffix) ==
  LET made == Generated[SeedOf[run]][enabled]
  IN [i \in DOMAIN made |->
        [ref |-> [source |-> SeedOf[run], index |-> made[i].index, suffix |-> suffix],
         events |-> made[i].events]]

\* A call arrives and its transaction begins; the id of a new run is unique.
Start(r, c) ==
  /\ pc[r] = "idle"
  /\ c.kind = "create" => runs[c.run] = None /\ \A q \in Requests : call[q] # c
  /\ call' = [call EXCEPT ![r] = c]
  /\ pc' = [pc EXCEPT ![r] = "begin"]
  /\ UNCHANGED <<tables, resets, plan, left, open, work, answer, reply>>

\* ingest_batch_route.
BeginIngest(r) ==
  /\ pc[r] = "begin"
  /\ call[r].kind = "ingest"
  /\ plan' = [plan EXCEPT ![r] = <<call[r].delivery>>]
  /\ pc' = [pc EXCEPT ![r] = "open"]
  /\ UNCHANGED <<tables, call, resets, left, open, work, answer, reply>>

\* create_run up to its batches: INSERT INTO simulation_runs.
CreateRun(r) ==
  LET run == call[r].run
  IN /\ pc[r] = "begin"
     /\ call[r].kind = "create"
     /\ work' = [work EXCEPT ![r].run = [status |-> "running", resets |-> 0]]
     /\ plan' = [plan EXCEPT ![r] = Generation(run, faults[run], run)]
     /\ pc' = [pc EXCEPT ![r] = "open"]
     /\ UNCHANGED <<tables, call, resets, left, open, answer, reply>>

RunUnknown(r) ==
  /\ pc[r] = "begin"
  /\ call[r].kind = "reset"
  /\ runs[call[r].run] = None
  /\ Fail(r, "not_found")

\* reset_run reads the configuration, without a lock, and counts one reset more.
ReadConfig(r) ==
  /\ pc[r] = "begin"
  /\ call[r].kind = "reset"
  /\ runs[call[r].run] # None
  /\ resets' = [resets EXCEPT ![r] = runs[call[r].run].resets + 1]
  /\ pc' = [pc EXCEPT ![r] = "lock"]
  /\ UNCHANGED <<tables, call, plan, left, open, work, answer, reply>>

\* The UPDATEs of the run's row lock it; the batches are generated again under
\* a suffix that counts the resets.
ResetRun(r) ==
  LET run == call[r].run
  IN /\ pc[r] = "lock"
     /\ MayProceed(r)
     /\ work' = [work EXCEPT ![r].run = [status |-> "running", resets |-> resets[r]]]
     /\ plan' = [plan EXCEPT ![r] = Generation(run, faults[run], resets[r])]
     /\ pc' = [pc EXCEPT ![r] = "open"]
     /\ UNCHANGED <<tables, call, resets, left, open, answer, reply>>

\* create_fault and patch_fault, each a transaction of its own.
SetFault(run, f) ==
  /\ runs[run] # None
  /\ \/ faults' = [faults EXCEPT ![run] = @ \cup {f}]
     \/ faults' = [faults EXCEPT ![run] = @ \ {f}]
  /\ UNCHANGED <<runs, batches, transactions, local>>

-----------------------------------------------------------------------------
(* Ingesting a batch. *)

AnswerFor(b) ==
  [ref |-> b.ref, received |-> b.received, rejected |-> b.rejected, status |-> b.status]

\* Mutant: the loop does not advance past a batch it has found.
ReplayBatchForever(r) ==
  /\ pc[r] = "open"
  /\ plan[r] # <<>>
  /\ \E b \in BatchesSeen(r) :
       /\ b.ref = Head(plan[r]).ref
       /\ answer' = [answer EXCEPT ![r] = AnswerFor(b)]
  /\ UNCHANGED <<tables, pc, call, resets, plan, left, open, work, reply>>

\* The next batch is there already: it is answered as it was the first time.
ReplayBatch(r) ==
  /\ pc[r] = "open"
  /\ plan[r] # <<>>
  /\ \E b \in BatchesSeen(r) :
       /\ b.ref = Head(plan[r]).ref
       /\ answer' = [answer EXCEPT ![r] = AnswerFor(b)]
  /\ plan' = [plan EXCEPT ![r] = Tail(@)]
  /\ UNCHANGED <<tables, pc, call, resets, left, open, work, reply>>

\* No batch has the reference yet, as far as this statement sees.
DecideToIngest(r) ==
  /\ pc[r] = "open"
  /\ plan[r] # <<>>
  /\ \A b \in BatchesSeen(r) : b.ref # Head(plan[r]).ref
  /\ pc' = [pc EXCEPT ![r] = "insert"]
  /\ UNCHANGED <<tables, call, resets, plan, left, open, work, answer, reply>>

\* The unique constraint refuses the reference, or the foreign key the run.
BatchRefused(r) ==
  \/ \E b \in batches : b.ref = Head(plan[r]).ref
  \/ runs[call[r].run] = None /\ work[r].run = None

InsertBatchRefused(r) ==
  /\ pc[r] = "insert"
  /\ MayProceed(r)
  /\ BatchRefused(r)
  /\ Fail(r, "internal_error")

\* INSERT INTO ingestion_batches.
InsertBatch(r) ==
  LET delivery == Head(plan[r])
  IN /\ pc[r] = "insert"
     /\ MayProceed(r)
     /\ ~BatchRefused(r)
     /\ open' = [open EXCEPT ![r] =
          [ref |-> delivery.ref, run |-> call[r].run, by |-> r,
           expected |-> Len(delivery.events), received |-> 0, rejected |-> 0,
           events |-> {}, status |-> "pending", health |-> "unknown"]]
     /\ left' = [left EXCEPT ![r] = delivery.events]
     /\ pc' = [pc EXCEPT ![r] = "event"]
     /\ UNCHANGED <<tables, call, resets, plan, work, answer, reply>>

\* One event more of a status, in the variables accepted and rejected.
Counted(b, status) ==
  IF status = "rejected" THEN [b EXCEPT !.rejected = @ + 1] ELSE [b EXCEPT !.received = @ + 1]

\* INSERT INTO ingestion_events, and the count.
Recorded(b, event, status) ==
  [Counted(b, status) EXCEPT
     !.events = @ \cup {[ref |-> event.ref, key |-> event.key, status |-> status]}]

\* The rows of the open batch under the reference of the next event.
EarlierRows(r) == {row \in open[r].events : row.ref = Head(left[r]).ref}

\* Mutant: a duplicate is recognised and forgotten.
DuplicateEventUncounted(r) ==
  /\ pc[r] = "event"
  /\ left[r] # <<>>
  /\ EarlierRows(r) # {}
  /\ left' = [left EXCEPT ![r] = Tail(@)]
  /\ UNCHANGED <<tables, pc, call, resets, plan, open, work, answer, reply>>

\* The batch has an event of that reference: it counts again as it did.
DuplicateEvent(r) ==
  /\ pc[r] = "event"
  /\ left[r] # <<>>
  /\ \E row \in EarlierRows(r) : open' = [open EXCEPT ![r] = Counted(@, row.status)]
  /\ left' = [left EXCEPT ![r] = Tail(@)]
  /\ UNCHANGED <<tables, pc, call, resets, plan, work, answer, reply>>

\* The next event is new to the batch and has the form.
NewEvent(r, form) ==
  /\ pc[r] = "event"
  /\ left[r] # <<>>
  /\ EarlierRows(r) = {}
  /\ Head(left[r]).form = form

\* An exception that the event loop does not catch.
EventRaises(r) ==
  /\ NewEvent(r, "raises")
  /\ Fail(r, "internal_error")

\* The event is kept as evidence and goes no further.
RejectEvent(r) ==
  /\ NewEvent(r, "rejected")
  /\ open' = [open EXCEPT ![r] = Recorded(@, Head(left[r]), "rejected")]
  /\ left' = [left EXCEPT ![r] = Tail(@)]
  /\ UNCHANGED <<tables, pc, call, resets, plan, work, answer, reply>>

\* A balance or heartbeat, or a transaction the ledger has: nothing to race for.
RecordEvent(r) ==
  /\ NewEvent(r, "valid")
  /\ Head(left[r]).key \in KeysSeen(r) \cup {None}
  /\ open' = [open EXCEPT ![r] = Recorded(@, Head(left[r]), "normalized")]
  /\ left' = [left EXCEPT ![r] = Tail(@)]
  /\ UNCHANGED <<tables, pc, call, resets, plan, work, answer, reply>>

\* write_transaction finds no such transaction.
DecideToWrite(r) ==
  /\ NewEvent(r, "valid")
  /\ Head(left[r]).key \notin KeysSeen(r) \cup {None}
  /\ open' = [open EXCEPT ![r] = Recorded(@, Head(left[r]), "normalized")]
  /\ pc' = [pc EXCEPT ![r] = "write"]
  /\ UNCHANGED <<tables, call, resets, plan, left, work, answer, reply>>

KeyRefused(r) == \E t \in transactions : t.key = Head(left[r]).key

WriteRefused(r) ==
  /\ pc[r] = "write"
  /\ MayProceed(r)
  /\ KeyRefused(r)
  /\ Fail(r, "internal_error")

\* INSERT INTO transactions.
WriteTransaction(r) ==
  LET row == [key |-> Head(left[r]).key, run |-> call[r].run]
  IN /\ pc[r] = "write"
     /\ MayProceed(r)
     /\ ~KeyRefused(r)
     /\ work' = [work EXCEPT ![r].transactions = @ \cup {row}]
     /\ left' = [left EXCEPT ![r] = Tail(@)]
     /\ pc' = [pc EXCEPT ![r] = "event"]
     /\ UNCHANGED <<tables, call, resets, plan, open, answer, reply>>

\* record_batch_assessment.
Health(b) ==
  CASE b.rejected = b.expected -> "missing"
    [] b.rejected # b.expected /\ b.rejected > 0 -> "stale"
    [] OTHER -> "fresh"

\* The batch row as the final UPDATE leaves it.
Closed(b) ==
  [b EXCEPT !.status = IF b.rejected = b.expected THEN "rejected" ELSE "normalized",
            !.health = Health(b)]

\* The last event is done.
CloseBatch(r) ==
  LET b == Closed(open[r])
  IN /\ pc[r] = "event"
     /\ left[r] = <<>>
     /\ work' = [work EXCEPT ![r].batches = @ \cup {b}]
     /\ open' = [open EXCEPT ![r] = None]
     /\ answer' = [answer EXCEPT ![r] = AnswerFor(b)]
     /\ plan' = [plan EXCEPT ![r] = Tail(@)]
     /\ pc' = [pc EXCEPT ![r] = "open"]
     /\ UNCHANGED <<tables, call, resets, left, reply>>

-----------------------------------------------------------------------------
(* The end of a call. *)

\* Mutant: a run is committed with its first batch.
FinishEarly(r) ==
  /\ pc[r] = "open"
  /\ answer[r] # None
  /\ runs' = IF work[r].run = None THEN runs
             ELSE [runs EXCEPT ![call[r].run] = [work[r].run EXCEPT !.status = "completed"]]
  /\ batches' = batches \cup work[r].batches
  /\ transactions' = transactions \cup work[r].transactions
  /\ Answered(r, "ok", answer[r])
  /\ UNCHANGED faults

\* Nothing is left to ingest: a run is completed, the transaction commits.
Finish(r) ==
  /\ pc[r] = "open"
  /\ plan[r] = <<>>
  /\ runs' = IF work[r].run = None THEN runs
             ELSE [runs EXCEPT ![call[r].run] = [work[r].run EXCEPT !.status = "completed"]]
  /\ batches' = batches \cup work[r].batches
  /\ transactions' = transactions \cup work[r].transactions
  /\ Answered(r, "ok", answer[r])
  /\ UNCHANGED faults

-----------------------------------------------------------------------------

\* A step the server takes for a request it is serving.
Serve(r) ==
  \/ BeginIngest(r) \/ CreateRun(r) \/ RunUnknown(r) \/ ReadConfig(r) \/ ResetRun(r)
  \/ ReplayBatch(r) \/ DecideToIngest(r) \/ InsertBatchRefused(r) \/ InsertBatch(r)
  \/ DuplicateEvent(r) \/ EventRaises(r) \/ RejectEvent(r) \/ RecordEvent(r)
  \/ DecideToWrite(r) \/ WriteRefused(r) \/ WriteTransaction(r)
  \/ CloseBatch(r) \/ Finish(r)
  \/ DeadlockVictim(r)

Quiescent ==
  /\ \A r \in Requests : pc[r] = "done"
  /\ UNCHANGED vars

Next ==
  \/ \E r \in Requests, c \in Calls : Start(r, c)
  \/ \E r \in Requests : Serve(r) \/ Abort(r)
  \/ \E run \in Runs, f \in Faults : SetFault(run, f)
  \/ Quiescent

Spec == Init /\ [][Next]_vars

\* The server keeps working on every request it has accepted, and PostgreSQL
\* looks for deadlocks.
Fairness == \A r \in Requests : WF_vars(Serve(r))

FairSpec == Spec /\ Fairness

-----------------------------------------------------------------------------
(* Properties. *)

Has(b, status) == \E row \in b.events : row.status = status

\* What a committed batch says of itself is what its evidence shows: every
\* event was counted once, as accepted or as rejected, duplicates included, and
\* its status and the health derived from it agree with the event rows.
CountsMatchEvidence ==
  \A b \in batches :
    /\ b.received + b.rejected = b.expected
    /\ b.received > 0 <=> Has(b, "normalized")
    /\ b.rejected > 0 <=> Has(b, "rejected")
    /\ b.status = (IF Has(b, "normalized") THEN "normalized" ELSE "rejected")
    /\ b.health = "missing" <=> ~Has(b, "normalized")
    /\ b.health = "fresh" <=> ~Has(b, "rejected")

\* The transaction references a batch has accepted.
Accepted(b) ==
  {row.key : row \in {x \in b.events : x.status = "normalized"}} \ {None}

\* The ledger is exactly what was accepted: an accepted transaction is in it,
\* whichever delivery brought it first, and "rejected events must not produce
\* ledger records" (docs/schema.md).
LedgerIsWhatWasAccepted ==
  {t.key : t \in transactions} = UNION {Accepted(b) : b \in batches}

\* A run has its row, marked completed, and all batches generated for it, or it
\* is not there at all: neither a failure nor a crash leaves a part of it.
RunsArriveWhole ==
  \A run \in Runs \ Loaded :
    LET own == {b \in batches : b.ref.source = SeedOf[run] /\ b.ref.suffix = run}
        generated == Generation(run, {}, run)
    IN IF runs[run] = None
       THEN {b \in batches : b.run = run} = {}
       ELSE /\ runs[run].status = "completed"
            /\ {b.ref : b \in own} = {generated[i].ref : i \in DOMAIN generated}

\* An ok answer, of the first delivery or of one sent again, repeats what the
\* batch in the tables says.
AnswersMatchEvidence ==
  \A r \in Requests :
    (reply[r] # None /\ reply[r].code = "ok") =>
      \E b \in batches : reply[r].answer = AnswerFor(b)

\* Calls that ingest what was generated from seeds never wait in a circle: all
\* take the row of their run, then references and keys in the generated order.
GeneratedRunsDoNotDeadlock ==
  \A S \in SUBSET Requests :
    (S # {} /\ WaitInACircle(S)) => \E r \in S : call[r].kind = "ingest"

\* A reset generates the run again ("Reset and re-run", simulation_cli.py:116):
\* when it is answered ok, and no other request resets the run, the batches it
\* generated are there, ingested for its run.
LoneResetsIngest ==
  \A r \in Requests :
    (/\ reply[r] # None /\ reply[r].code = "ok" /\ call[r].kind = "reset"
     /\ \A q \in Requests \ {r} : call[q] # call[r]) =>
      \E b \in batches : b.by = r /\ b.run = call[r].run

\* Every call is answered, whatever it waits for.
EveryCallAnswered == \A r \in Requests : InFlight(r) ~> pc[r] = "done"

\* Ingestion implements the abstract ledger.
Ledger == INSTANCE FeedLedger WITH Batches <- Batch, Rows <- Row

ImplementsLedger == Ledger!Spec
=============================================================================
